---- MODULE Spec2Model ----
(***************************************************************************)
(* Slug'sEra API (src/main.py, src/schemas.py): the product catalog, the   *)
(* demo-data seeder, the pricing calculator behind POST /api/calc and the  *)
(* order endpoint POST /api/orders that re-runs the calculator and stores  *)
(* the order.                                                              *)
(*                                                                         *)
(* Requests.  The handlers are plain `def` functions, which FastAPI runs   *)
(* on a thread pool: several requests are in flight at once and nothing is *)
(* locked, so a handler is atomic only from one database call to the next. *)
(* Each thread's position is in task; one action is one database round     *)
(* trip together with the local computation that follows it.               *)
(*                                                                         *)
(* Money.  The code computes in binary doubles and rounds every output     *)
(* field with round(x, 2); the model computes in the same doubles.  An     *)
(* amount at rest (a stored price, a rounded field of a response, an       *)
(* amount a client sends) is written as an integer number of mills, 1/1000 *)
(* of a currency unit: 109.0 is 109000.  A rounded field that is an        *)
(* infinity or nan has no such number and stays the double it is.          *)
(*                                                                         *)
(* Text.  Discount codes and countries are sequences of one-character      *)
(* strings, so that strip() and upper() are computed, and so are product   *)
(* titles, which hold an en dash.  A character is the string holding it; a *)
(* code point above U+00FF, which a string of this language cannot hold,   *)
(* is the string "U+" and its hexadecimal number.                          *)
(***************************************************************************)
EXTENDS Integers, Sequences, FiniteSets, TLC

VARIABLES
    product,   \* the "product" collection, documents in insertion order
    order,     \* the "order" collection, documents in insertion order
    created,   \* how many product documents were ever created
    task       \* per thread: the request it serves and how far it has come

vars == <<product, order, created, task>>

\* ------------------------------------------------------------------ bounds
MaxLines == 2      \* longest cart a request carries
MaxQty == 2        \* largest quantity on one cart line
MaxOrders == 1     \* orders in the store after which no new order request starts
MaxSeedings == 2   \* seed requests that insert; after them no seed request starts
Workers == 2       \* threads serving requests at once

\* ------------------------------------------------------------------ text
Range(s) == {s[i] : i \in 1..Len(s)}

\* what str.strip() removes: U+0009..U+000D, U+001C..U+001F, U+0020, U+0085,
\* U+00A0 (written as the characters themselves) and the spaces above U+00FF
Whitespace ==
    {
      "\t", "\n", "", "\f", "\r", "", "", "", "", " ", "", " ",
      "U+1680", "U+2000", "U+2001", "U+2002", "U+2003", "U+2004", "U+2005",
      "U+2006", "U+2007", "U+2008", "U+2009", "U+200A", "U+2028", "U+2029",
      "U+202F", "U+205F", "U+3000"
    }

\* str.upper(), character by character (Unicode 14.0.0): every character
\* that has an upper-case form other than itself, with that form
UpperCaseOf ==
    <<
      <<"a", <<"A">>>>, <<"b", <<"B">>>>, <<"c", <<"C">>>>, <<"d", <<"D">>>>,
      <<"e", <<"E">>>>, <<"f", <<"F">>>>, <<"g", <<"G">>>>, <<"h", <<"H">>>>,
      <<"i", <<"I">>>>, <<"j", <<"J">>>>, <<"k", <<"K">>>>, <<"l", <<"L">>>>,
      <<"m", <<"M">>>>, <<"n", <<"N">>>>, <<"o", <<"O">>>>, <<"p", <<"P">>>>,
      <<"q", <<"Q">>>>, <<"r", <<"R">>>>, <<"s", <<"S">>>>, <<"t", <<"T">>>>,
      <<"u", <<"U">>>>, <<"v", <<"V">>>>, <<"w", <<"W">>>>, <<"x", <<"X">>>>,
      <<"y", <<"Y">>>>, <<"z", <<"Z">>>>, <<"µ", <<"U+039C">>>>,
      <<"ß", <<"S", "S">>>>, <<"à", <<"À">>>>, <<"á", <<"Á">>>>,
      <<"â", <<"Â">>>>, <<"ã", <<"Ã">>>>, <<"ä", <<"Ä">>>>, <<"å", <<"Å">>>>,
      <<"æ", <<"Æ">>>>, <<"ç", <<"Ç">>>>, <<"è", <<"È">>>>, <<"é", <<"É">>>>,
      <<"ê", <<"Ê">>>>, <<"ë", <<"Ë">>>>, <<"ì", <<"Ì">>>>, <<"í", <<"Í">>>>,
      <<"î", <<"Î">>>>, <<"ï", <<"Ï">>>>, <<"ð", <<"Ð">>>>, <<"ñ", <<"Ñ">>>>,
      <<"ò", <<"Ò">>>>, <<"ó", <<"Ó">>>>, <<"ô", <<"Ô">>>>, <<"õ", <<"Õ">>>>,
      <<"ö", <<"Ö">>>>, <<"ø", <<"Ø">>>>, <<"ù", <<"Ù">>>>, <<"ú", <<"Ú">>>>,
      <<"û", <<"Û">>>>, <<"ü", <<"Ü">>>>, <<"ý", <<"Ý">>>>, <<"þ", <<"Þ">>>>,
      <<"ÿ", <<"U+0178">>>>, <<"U+0101", <<"U+0100">>>>,
      <<"U+0103", <<"U+0102">>>>, <<"U+0105", <<"U+0104">>>>,
      <<"U+0107", <<"U+0106">>>>, <<"U+0109", <<"U+0108">>>>,
      <<"U+010B", <<"U+010A">>>>, <<"U+010D", <<"U+010C">>>>,
      <<"U+010F", <<"U+010E">>>>, <<"U+0111", <<"U+0110">>>>,
      <<"U+0113", <<"U+0112">>>>, <<"U+0115", <<"U+0114">>>>,
      <<"U+0117", <<"U+0116">>>>, <<"U+0119", <<"U+0118">>>>,
      <<"U+011B", <<"U+011A">>>>, <<"U+011D", <<"U+011C">>>>,
      <<"U+011F", <<"U+011E">>>>, <<"U+0121", <<"U+0120">>>>,
      <<"U+0123", <<"U+0122">>>>, <<"U+0125", <<"U+0124">>>>,
      <<"U+0127", <<"U+0126">>>>, <<"U+0129", <<"U+0128">>>>,
      <<"U+012B", <<"U+012A">>>>, <<"U+012D", <<"U+012C">>>>,
      <<"U+012F", <<"U+012E">>>>, <<"U+0131", <<"I">>>>,
      <<"U+0133", <<"U+0132">>>>, <<"U+0135", <<"U+0134">>>>,
      <<"U+0137", <<"U+0136">>>>, <<"U+013A", <<"U+0139">>>>,
      <<"U+013C", <<"U+013B">>>>, <<"U+013E", <<"U+013D">>>>,
      <<"U+0140", <<"U+013F">>>>, <<"U+0142", <<"U+0141">>>>,
      <<"U+0144", <<"U+0143">>>>, <<"U+0146", <<"U+0145">>>>,
      <<"U+0148", <<"U+0147">>>>, <<"U+0149", <<"U+02BC", "N">>>>,
      <<"U+014B", <<"U+014A">>>>, <<"U+014D", <<"U+014C">>>>,
      <<"U+014F", <<"U+014E">>>>, <<"U+0151", <<"U+0150">>>>,
      <<"U+0153", <<"U+0152">>>>, <<"U+0155", <<"U+0154">>>>,
      <<"U+0157", <<"U+0156">>>>, <<"U+0159", <<"U+0158">>>>,
      <<"U+015B", <<"U+015A">>>>, <<"U+015D", <<"U+015C">>>>,
      <<"U+015F", <<"U+015E">>>>, <<"U+0161", <<"U+0160">>>>,
      <<"U+0163", <<"U+0162">>>>, <<"U+0165", <<"U+0164">>>>,
      <<"U+0167", <<"U+0166">>>>, <<"U+0169", <<"U+0168">>>>,
      <<"U+016B", <<"U+016A">>>>, <<"U+016D", <<"U+016C">>>>,
      <<"U+016F", <<"U+016E">>>>, <<"U+0171", <<"U+0170">>>>,
      <<"U+0173", <<"U+0172">>>>, <<"U+0175", <<"U+0174">>>>,
      <<"U+0177", <<"U+0176">>>>, <<"U+017A", <<"U+0179">>>>,
      <<"U+017C", <<"U+017B">>>>, <<"U+017E", <<"U+017D">>>>,
      <<"U+017F", <<"S">>>>, <<"U+0180", <<"U+0243">>>>,
      <<"U+0183", <<"U+0182">>>>, <<"U+0185", <<"U+0184">>>>,
      <<"U+0188", <<"U+0187">>>>, <<"U+018C", <<"U+018B">>>>,
      <<"U+0192", <<"U+0191">>>>, <<"U+0195", <<"U+01F6">>>>,
      <<"U+0199", <<"U+0198">>>>, <<"U+019A", <<"U+023D">>>>,
      <<"U+019E", <<"U+0220">>>>, <<"U+01A1", <<"U+01A0">>>>,
      <<"U+01A3", <<"U+01A2">>>>, <<"U+01A5", <<"U+01A4">>>>,
      <<"U+01A8", <<"U+01A7">>>>, <<"U+01AD", <<"U+01AC">>>>,
      <<"U+01B0", <<"U+01AF">>>>, <<"U+01B4", <<"U+01B3">>>>,
      <<"U+01B6", <<"U+01B5">>>>, <<"U+01B9", <<"U+01B8">>>>,
      <<"U+01BD", <<"U+01BC">>>>, <<"U+01BF", <<"U+01F7">>>>,
      <<"U+01C5", <<"U+01C4">>>>, <<"U+01C6", <<"U+01C4">>>>,
      <<"U+01C8", <<"U+01C7">>>>, <<"U+01C9", <<"U+01C7">>>>,
      <<"U+01CB", <<"U+01CA">>>>, <<"U+01CC", <<"U+01CA">>>>,
      <<"U+01CE", <<"U+01CD">>>>, <<"U+01D0", <<"U+01CF">>>>,
      <<"U+01D2", <<"U+01D1">>>>, <<"U+01D4", <<"U+01D3">>>>,
      <<"U+01D6", <<"U+01D5">>>>, <<"U+01D8", <<"U+01D7">>>>,
      <<"U+01DA", <<"U+01D9">>>>, <<"U+01DC", <<"U+01DB">>>>,
      <<"U+01DD", <<"U+018E">>>>, <<"U+01DF", <<"U+01DE">>>>,
      <<"U+01E1", <<"U+01E0">>>>, <<"U+01E3", <<"U+01E2">>>>,
      <<"U+01E5", <<"U+01E4">>>>, <<"U+01E7", <<"U+01E6">>>>,
      <<"U+01E9", <<"U+01E8">>>>, <<"U+01EB", <<"U+01EA">>>>,
      <<"U+01ED", <<"U+01EC">>>>, <<"U+01EF", <<"U+01EE">>>>,
      <<"U+01F0", <<"J", "U+030C">>>>, <<"U+01F2", <<"U+01F1">>>>,
      <<"U+01F3", <<"U+01F1">>>>, <<"U+01F5", <<"U+01F4">>>>,
      <<"U+01F9", <<"U+01F8">>>>, <<"U+01FB", <<"U+01FA">>>>,
      <<"U+01FD", <<"U+01FC">>>>, <<"U+01FF", <<"U+01FE">>>>,
      <<"U+0201", <<"U+0200">>>>, <<"U+0203", <<"U+0202">>>>,
      <<"U+0205", <<"U+0204">>>>, <<"U+0207", <<"U+0206">>>>,
      <<"U+0209", <<"U+0208">>>>, <<"U+020B", <<"U+020A">>>>,
      <<"U+020D", <<"U+020C">>>>, <<"U+020F", <<"U+020E">>>>,
      <<"U+0211", <<"U+0210">>>>, <<"U+0213", <<"U+0212">>>>,
      <<"U+0215", <<"U+0214">>>>, <<"U+0217", <<"U+0216">>>>,
      <<"U+0219", <<"U+0218">>>>, <<"U+021B", <<"U+021A">>>>,
      <<"U+021D", <<"U+021C">>>>, <<"U+021F", <<"U+021E">>>>,
      <<"U+0223", <<"U+0222">>>>, <<"U+0225", <<"U+0224">>>>,
      <<"U+0227", <<"U+0226">>>>, <<"U+0229", <<"U+0228">>>>,
      <<"U+022B", <<"U+022A">>>>, <<"U+022D", <<"U+022C">>>>,
      <<"U+022F", <<"U+022E">>>>, <<"U+0231", <<"U+0230">>>>,
      <<"U+0233", <<"U+0232">>>>, <<"U+023C", <<"U+023B">>>>,
      <<"U+023F", <<"U+2C7E">>>>, <<"U+0240", <<"U+2C7F">>>>,
      <<"U+0242", <<"U+0241">>>>, <<"U+0247", <<"U+0246">>>>,
      <<"U+0249", <<"U+0248">>>>, <<"U+024B", <<"U+024A">>>>,
      <<"U+024D", <<"U+024C">>>>, <<"U+024F", <<"U+024E">>>>,
      <<"U+0250", <<"U+2C6F">>>>, <<"U+0251", <<"U+2C6D">>>>,
      <<"U+0252", <<"U+2C70">>>>, <<"U+0253", <<"U+0181">>>>,
      <<"U+0254", <<"U+0186">>>>, <<"U+0256", <<"U+0189">>>>,
      <<"U+0257", <<"U+018A">>>>, <<"U+0259", <<"U+018F">>>>,
      <<"U+025B", <<"U+0190">>>>, <<"U+025C", <<"U+A7AB">>>>,
      <<"U+0260", <<"U+0193">>>>, <<"U+0261", <<"U+A7AC">>>>,
      <<"U+0263", <<"U+0194">>>>, <<"U+0265", <<"U+A78D">>>>,
      <<"U+0266", <<"U+A7AA">>>>, <<"U+0268", <<"U+0197">>>>,
      <<"U+0269", <<"U+0196">>>>, <<"U+026A", <<"U+A7AE">>>>,
      <<"U+026B", <<"U+2C62">>>>, <<"U+026C", <<"U+A7AD">>>>,
      <<"U+026F", <<"U+019C">>>>, <<"U+0271", <<"U+2C6E">>>>,
      <<"U+0272", <<"U+019D">>>>, <<"U+0275", <<"U+019F">>>>,
      <<"U+027D", <<"U+2C64">>>>, <<"U+0280", <<"U+01A6">>>>,
      <<"U+0282", <<"U+A7C5">>>>, <<"U+0283", <<"U+01A9">>>>,
      <<"U+0287", <<"U+A7B1">>>>, <<"U+0288", <<"U+01AE">>>>,
      <<"U+0289", <<"U+0244">>>>, <<"U+028A", <<"U+01B1">>>>,
      <<"U+028B", <<"U+01B2">>>>, <<"U+028C", <<"U+0245">>>>,
      <<"U+0292", <<"U+01B7">>>>, <<"U+029D", <<"U+A7B2">>>>,
      <<"U+029E", <<"U+A7B0">>>>, <<"U+0345", <<"U+0399">>>>,
      <<"U+0371", <<"U+0370">>>>, <<"U+0373", <<"U+0372">>>>,
      <<"U+0377", <<"U+0376">>>>, <<"U+037B", <<"U+03FD">>>>,
      <<"U+037C", <<"U+03FE">>>>, <<"U+037D", <<"U+03FF">>>>,
      <<"U+0390", <<"U+0399", "U+0308", "U+0301">>>>,
      <<"U+03AC", <<"U+0386">>>>, <<"U+03AD", <<"U+0388">>>>,
      <<"U+03AE", <<"U+0389">>>>, <<"U+03AF", <<"U+038A">>>>,
      <<"U+03B0", <<"U+03A5", "U+0308", "U+0301">>>>,
      <<"U+03B1", <<"U+0391">>>>, <<"U+03B2", <<"U+0392">>>>,
      <<"U+03B3", <<"U+0393">>>>, <<"U+03B4", <<"U+0394">>>>,
      <<"U+03B5", <<"U+0395">>>>, <<"U+03B6", <<"U+0396">>>>,
      <<"U+03B7", <<"U+0397">>>>, <<"U+03B8", <<"U+0398">>>>,
      <<"U+03B9", <<"U+0399">>>>, <<"U+03BA", <<"U+039A">>>>,
      <<"U+03BB", <<"U+039B">>>>, <<"U+03BC", <<"U+039C">>>>,
      <<"U+03BD", <<"U+039D">>>>, <<"U+03BE", <<"U+039E">>>>,
      <<"U+03BF", <<"U+039F">>>>, <<"U+03C0", <<"U+03A0">>>>,
      <<"U+03C1", <<"U+03A1">>>>, <<"U+03C2", <<"U+03A3">>>>,
      <<"U+03C3", <<"U+03A3">>>>, <<"U+03C4", <<"U+03A4">>>>,
      <<"U+03C5", <<"U+03A5">>>>, <<"U+03C6", <<"U+03A6">>>>,
      <<"U+03C7", <<"U+03A7">>>>, <<"U+03C8", <<"U+03A8">>>>,
      <<"U+03C9", <<"U+03A9">>>>, <<"U+03CA", <<"U+03AA">>>>,
      <<"U+03CB", <<"U+03AB">>>>, <<"U+03CC", <<"U+038C">>>>,
      <<"U+03CD", <<"U+038E">>>>, <<"U+03CE", <<"U+038F">>>>,
      <<"U+03D0", <<"U+0392">>>>, <<"U+03D1", <<"U+0398">>>>,
      <<"U+03D5", <<"U+03A6">>>>, <<"U+03D6", <<"U+03A0">>>>,
      <<"U+03D7", <<"U+03CF">>>>, <<"U+03D9", <<"U+03D8">>>>,
      <<"U+03DB", <<"U+03DA">>>>, <<"U+03DD", <<"U+03DC">>>>,
      <<"U+03DF", <<"U+03DE">>>>, <<"U+03E1", <<"U+03E0">>>>,
      <<"U+03E3", <<"U+03E2">>>>, <<"U+03E5", <<"U+03E4">>>>,
      <<"U+03E7", <<"U+03E6">>>>, <<"U+03E9", <<"U+03E8">>>>,
      <<"U+03EB", <<"U+03EA">>>>, <<"U+03ED", <<"U+03EC">>>>,
      <<"U+03EF", <<"U+03EE">>>>, <<"U+03F0", <<"U+039A">>>>,
      <<"U+03F1", <<"U+03A1">>>>, <<"U+03F2", <<"U+03F9">>>>,
      <<"U+03F3", <<"U+037F">>>>, <<"U+03F5", <<"U+0395">>>>,
      <<"U+03F8", <<"U+03F7">>>>, <<"U+03FB", <<"U+03FA">>>>,
      <<"U+0430", <<"U+0410">>>>, <<"U+0431", <<"U+0411">>>>,
      <<"U+0432", <<"U+0412">>>>, <<"U+0433", <<"U+0413">>>>,
      <<"U+0434", <<"U+0414">>>>, <<"U+0435", <<"U+0415">>>>,
      <<"U+0436", <<"U+0416">>>>, <<"U+0437", <<"U+0417">>>>,
      <<"U+0438", <<"U+0418">>>>, <<"U+0439", <<"U+0419">>>>,
      <<"U+043A", <<"U+041A">>>>, <<"U+043B", <<"U+041B">>>>,
      <<"U+043C", <<"U+041C">>>>, <<"U+043D", <<"U+041D">>>>,
      <<"U+043E", <<"U+041E">>>>, <<"U+043F", <<"U+041F">>>>,
      <<"U+0440", <<"U+0420">>>>, <<"U+0441", <<"U+0421">>>>,
      <<"U+0442", <<"U+0422">>>>, <<"U+0443", <<"U+0423">>>>,
      <<"U+0444", <<"U+0424">>>>, <<"U+0445", <<"U+0425">>>>,
      <<"U+0446", <<"U+0426">>>>, <<"U+0447", <<"U+0427">>>>,
      <<"U+0448", <<"U+0428">>>>, <<"U+0449", <<"U+0429">>>>,
      <<"U+044A", <<"U+042A">>>>, <<"U+044B", <<"U+042B">>>>,
      <<"U+044C", <<"U+042C">>>>, <<"U+044D", <<"U+042D">>>>,
      <<"U+044E", <<"U+042E">>>>, <<"U+044F", <<"U+042F">>>>,
      <<"U+0450", <<"U+0400">>>>, <<"U+0451", <<"U+0401">>>>,
      <<"U+0452", <<"U+0402">>>>, <<"U+0453", <<"U+0403">>>>,
      <<"U+0454", <<"U+0404">>>>, <<"U+0455", <<"U+0405">>>>,
      <<"U+0456", <<"U+0406">>>>, <<"U+0457", <<"U+0407">>>>,
      <<"U+0458", <<"U+0408">>>>, <<"U+0459", <<"U+0409">>>>,
      <<"U+045A", <<"U+040A">>>>, <<"U+045B", <<"U+040B">>>>,
      <<"U+045C", <<"U+040C">>>>, <<"U+045D", <<"U+040D">>>>,
      <<"U+045E", <<"U+040E">>>>, <<"U+045F", <<"U+040F">>>>,
      <<"U+0461", <<"U+0460">>>>, <<"U+0463", <<"U+0462">>>>,
      <<"U+0465", <<"U+0464">>>>, <<"U+0467", <<"U+0466">>>>,
      <<"U+0469", <<"U+0468">>>>, <<"U+046B", <<"U+046A">>>>,
      <<"U+046D", <<"U+046C">>>>, <<"U+046F", <<"U+046E">>>>,
      <<"U+0471", <<"U+0470">>>>, <<"U+0473", <<"U+0472">>>>,
      <<"U+0475", <<"U+0474">>>>, <<"U+0477", <<"U+0476">>>>,
      <<"U+0479", <<"U+0478">>>>, <<"U+047B", <<"U+047A">>>>,
      <<"U+047D", <<"U+047C">>>>, <<"U+047F", <<"U+047E">>>>,
      <<"U+0481", <<"U+0480">>>>, <<"U+048B", <<"U+048A">>>>,
      <<"U+048D", <<"U+048C">>>>, <<"U+048F", <<"U+048E">>>>,
      <<"U+0491", <<"U+0490">>>>, <<"U+0493", <<"U+0492">>>>,
      <<"U+0495", <<"U+0494">>>>, <<"U+0497", <<"U+0496">>>>,
      <<"U+0499", <<"U+0498">>>>, <<"U+049B", <<"U+049A">>>>,
      <<"U+049D", <<"U+049C">>>>, <<"U+049F", <<"U+049E">>>>,
      <<"U+04A1", <<"U+04A0">>>>, <<"U+04A3", <<"U+04A2">>>>,
      <<"U+04A5", <<"U+04A4">>>>, <<"U+04A7", <<"U+04A6">>>>,
      <<"U+04A9", <<"U+04A8">>>>, <<"U+04AB", <<"U+04AA">>>>,
      <<"U+04AD", <<"U+04AC">>>>, <<"U+04AF", <<"U+04AE">>>>,
      <<"U+04B1", <<"U+04B0">>>>, <<"U+04B3", <<"U+04B2">>>>,
      <<"U+04B5", <<"U+04B4">>>>, <<"U+04B7", <<"U+04B6">>>>,
      <<"U+04B9", <<"U+04B8">>>>, <<"U+04BB", <<"U+04BA">>>>,
      <<"U+04BD", <<"U+04BC">>>>, <<"U+04BF", <<"U+04BE">>>>,
      <<"U+04C2", <<"U+04C1">>>>, <<"U+04C4", <<"U+04C3">>>>,
      <<"U+04C6", <<"U+04C5">>>>, <<"U+04C8", <<"U+04C7">>>>,
      <<"U+04CA", <<"U+04C9">>>>, <<"U+04CC", <<"U+04CB">>>>,
      <<"U+04CE", <<"U+04CD">>>>, <<"U+04CF", <<"U+04C0">>>>,
      <<"U+04D1", <<"U+04D0">>>>, <<"U+04D3", <<"U+04D2">>>>,
      <<"U+04D5", <<"U+04D4">>>>, <<"U+04D7", <<"U+04D6">>>>,
      <<"U+04D9", <<"U+04D8">>>>, <<"U+04DB", <<"U+04DA">>>>,
      <<"U+04DD", <<"U+04DC">>>>, <<"U+04DF", <<"U+04DE">>>>,
      <<"U+04E1", <<"U+04E0">>>>, <<"U+04E3", <<"U+04E2">>>>,
      <<"U+04E5", <<"U+04E4">>>>, <<"U+04E7", <<"U+04E6">>>>,
      <<"U+04E9", <<"U+04E8">>>>, <<"U+04EB", <<"U+04EA">>>>,
      <<"U+04ED", <<"U+04EC">>>>, <<"U+04EF", <<"U+04EE">>>>,
      <<"U+04F1", <<"U+04F0">>>>, <<"U+04F3", <<"U+04F2">>>>,
      <<"U+04F5", <<"U+04F4">>>>, <<"U+04F7", <<"U+04F6">>>>,
      <<"U+04F9", <<"U+04F8">>>>, <<"U+04FB", <<"U+04FA">>>>,
      <<"U+04FD", <<"U+04FC">>>>, <<"U+04FF", <<"U+04FE">>>>,
      <<"U+0501", <<"U+0500">>>>, <<"U+0503", <<"U+0502">>>>,
      <<"U+0505", <<"U+0504">>>>, <<"U+0507", <<"U+0506">>>>,
      <<"U+0509", <<"U+0508">>>>, <<"U+050B", <<"U+050A">>>>,
      <<"U+050D", <<"U+050C">>>>, <<"U+050F", <<"U+050E">>>>,
      <<"U+0511", <<"U+0510">>>>, <<"U+0513", <<"U+0512">>>>,
      <<"U+0515", <<"U+0514">>>>, <<"U+0517", <<"U+0516">>>>,
      <<"U+0519", <<"U+0518">>>>, <<"U+051B", <<"U+051A">>>>,
      <<"U+051D", <<"U+051C">>>>, <<"U+051F", <<"U+051E">>>>,
      <<"U+0521", <<"U+0520">>>>, <<"U+0523", <<"U+0522">>>>,
      <<"U+0525", <<"U+0524">>>>, <<"U+0527", <<"U+0526">>>>,
      <<"U+0529", <<"U+0528">>>>, <<"U+052B", <<"U+052A">>>>,
      <<"U+052D", <<"U+052C">>>>, <<"U+052F", <<"U+052E">>>>,
      <<"U+0561", <<"U+0531">>>>, <<"U+0562", <<"U+0532">>>>,
      <<"U+0563", <<"U+0533">>>>, <<"U+0564", <<"U+0534">>>>,
      <<"U+0565", <<"U+0535">>>>, <<"U+0566", <<"U+0536">>>>,
      <<"U+0567", <<"U+0537">>>>, <<"U+0568", <<"U+0538">>>>,
      <<"U+0569", <<"U+0539">>>>, <<"U+056A", <<"U+053A">>>>,
      <<"U+056B", <<"U+053B">>>>, <<"U+056C", <<"U+053C">>>>,
      <<"U+056D", <<"U+053D">>>>, <<"U+056E", <<"U+053E">>>>,
      <<"U+056F", <<"U+053F">>>>, <<"U+0570", <<"U+0540">>>>,
      <<"U+0571", <<"U+0541">>>>, <<"U+0572", <<"U+0542">>>>,
      <<"U+0573", <<"U+0543">>>>, <<"U+0574", <<"U+0544">>>>,
      <<"U+0575", <<"U+0545">>>>, <<"U+0576", <<"U+0546">>>>,
      <<"U+0577", <<"U+0547">>>>, <<"U+0578", <<"U+0548">>>>,
      <<"U+0579", <<"U+0549">>>>, <<"U+057A", <<"U+054A">>>>,
      <<"U+057B", <<"U+054B">>>>, <<"U+057C", <<"U+054C">>>>,
      <<"U+057D", <<"U+054D">>>>, <<"U+057E", <<"U+054E">>>>,
      <<"U+057F", <<"U+054F">>>>, <<"U+0580", <<"U+0550">>>>,
      <<"U+0581", <<"U+0551">>>>, <<"U+0582", <<"U+0552">>>>,
      <<"U+0583", <<"U+0553">>>>, <<"U+0584", <<"U+0554">>>>,
      <<"U+0585", <<"U+0555">>>>, <<"U+0586", <<"U+0556">>>>,
      <<"U+0587", <<"U+0535", "U+0552">>>>, <<"U+10D0", <<"U+1C90">>>>,
      <<"U+10D1", <<"U+1C91">>>>, <<"U+10D2", <<"U+1C92">>>>,
      <<"U+10D3", <<"U+1C93">>>>, <<"U+10D4", <<"U+1C94">>>>,
      <<"U+10D5", <<"U+1C95">>>>, <<"U+10D6", <<"U+1C96">>>>,
      <<"U+10D7", <<"U+1C97">>>>, <<"U+10D8", <<"U+1C98">>>>,
      <<"U+10D9", <<"U+1C99">>>>, <<"U+10DA", <<"U+1C9A">>>>,
      <<"U+10DB", <<"U+1C9B">>>>, <<"U+10DC", <<"U+1C9C">>>>,
      <<"U+10DD", <<"U+1C9D">>>>, <<"U+10DE", <<"U+1C9E">>>>,
      <<"U+10DF", <<"U+1C9F">>>>, <<"U+10E0", <<"U+1CA0">>>>,
      <<"U+10E1", <<"U+1CA1">>>>, <<"U+10E2", <<"U+1CA2">>>>,
      <<"U+10E3", <<"U+1CA3">>>>, <<"U+10E4", <<"U+1CA4">>>>,
      <<"U+10E5", <<"U+1CA5">>>>, <<"U+10E6", <<"U+1CA6">>>>,
      <<"U+10E7", <<"U+1CA7">>>>, <<"U+10E8", <<"U+1CA8">>>>,
      <<"U+10E9", <<"U+1CA9">>>>, <<"U+10EA", <<"U+1CAA">>>>,
      <<"U+10EB", <<"U+1CAB">>>>, <<"U+10EC", <<"U+1CAC">>>>,
      <<"U+10ED", <<"U+1CAD">>>>, <<"U+10EE", <<"U+1CAE">>>>,
      <<"U+10EF", <<"U+1CAF">>>>, <<"U+10F0", <<"U+1CB0">>>>,
      <<"U+10F1", <<"U+1CB1">>>>, <<"U+10F2", <<"U+1CB2">>>>,
      <<"U+10F3", <<"U+1CB3">>>>, <<"U+10F4", <<"U+1CB4">>>>,
      <<"U+10F5", <<"U+1CB5">>>>, <<"U+10F6", <<"U+1CB6">>>>,
      <<"U+10F7", <<"U+1CB7">>>>, <<"U+10F8", <<"U+1CB8">>>>,
      <<"U+10F9", <<"U+1CB9">>>>, <<"U+10FA", <<"U+1CBA">>>>,
      <<"U+10FD", <<"U+1CBD">>>>, <<"U+10FE", <<"U+1CBE">>>>,
      <<"U+10FF", <<"U+1CBF">>>>, <<"U+13F8", <<"U+13F0">>>>,
      <<"U+13F9", <<"U+13F1">>>>, <<"U+13FA", <<"U+13F2">>>>,
      <<"U+13FB", <<"U+13F3">>>>, <<"U+13FC", <<"U+13F4">>>>,
      <<"U+13FD", <<"U+13F5">>>>, <<"U+1C80", <<"U+0412">>>>,
      <<"U+1C81", <<"U+0414">>>>, <<"U+1C82", <<"U+041E">>>>,
      <<"U+1C83", <<"U+0421">>>>, <<"U+1C84", <<"U+0422">>>>,
      <<"U+1C85", <<"U+0422">>>>, <<"U+1C86", <<"U+042A">>>>,
      <<"U+1C87", <<"U+0462">>>>, <<"U+1C88", <<"U+A64A">>>>,
      <<"U+1D79", <<"U+A77D">>>>, <<"U+1D7D", <<"U+2C63">>>>,
      <<"U+1D8E", <<"U+A7C6">>>>, <<"U+1E01", <<"U+1E00">>>>,
      <<"U+1E03", <<"U+1E02">>>>, <<"U+1E05", <<"U+1E04">>>>,
      <<"U+1E07", <<"U+1E06">>>>, <<"U+1E09", <<"U+1E08">>>>,
      <<"U+1E0B", <<"U+1E0A">>>>, <<"U+1E0D", <<"U+1E0C">>>>,
      <<"U+1E0F", <<"U+1E0E">>>>, <<"U+1E11", <<"U+1E10">>>>,
      <<"U+1E13", <<"U+1E12">>>>, <<"U+1E15", <<"U+1E14">>>>,
      <<"U+1E17", <<"U+1E16">>>>, <<"U+1E19", <<"U+1E18">>>>,
      <<"U+1E1B", <<"U+1E1A">>>>, <<"U+1E1D", <<"U+1E1C">>>>,
      <<"U+1E1F", <<"U+1E1E">>>>, <<"U+1E21", <<"U+1E20">>>>,
      <<"U+1E23", <<"U+1E22">>>>, <<"U+1E25", <<"U+1E24">>>>,
      <<"U+1E27", <<"U+1E26">>>>, <<"U+1E29", <<"U+1E28">>>>,
      <<"U+1E2B", <<"U+1E2A">>>>, <<"U+1E2D", <<"U+1E2C">>>>,
      <<"U+1E2F", <<"U+1E2E">>>>, <<"U+1E31", <<"U+1E30">>>>,
      <<"U+1E33", <<"U+1E32">>>>, <<"U+1E35", <<"U+1E34">>>>,
      <<"U+1E37", <<"U+1E36">>>>, <<"U+1E39", <<"U+1E38">>>>,
      <<"U+1E3B", <<"U+1E3A">>>>, <<"U+1E3D", <<"U+1E3C">>>>,
      <<"U+1E3F", <<"U+1E3E">>>>, <<"U+1E41", <<"U+1E40">>>>,
      <<"U+1E43", <<"U+1E42">>>>, <<"U+1E45", <<"U+1E44">>>>,
      <<"U+1E47", <<"U+1E46">>>>, <<"U+1E49", <<"U+1E48">>>>,
      <<"U+1E4B", <<"U+1E4A">>>>, <<"U+1E4D", <<"U+1E4C">>>>,
      <<"U+1E4F", <<"U+1E4E">>>>, <<"U+1E51", <<"U+1E50">>>>,
      <<"U+1E53", <<"U+1E52">>>>, <<"U+1E55", <<"U+1E54">>>>,
      <<"U+1E57", <<"U+1E56">>>>, <<"U+1E59", <<"U+1E58">>>>,
      <<"U+1E5B", <<"U+1E5A">>>>, <<"U+1E5D", <<"U+1E5C">>>>,
      <<"U+1E5F", <<"U+1E5E">>>>, <<"U+1E61", <<"U+1E60">>>>,
      <<"U+1E63", <<"U+1E62">>>>, <<"U+1E65", <<"U+1E64">>>>,
      <<"U+1E67", <<"U+1E66">>>>, <<"U+1E69", <<"U+1E68">>>>,
      <<"U+1E6B", <<"U+1E6A">>>>, <<"U+1E6D", <<"U+1E6C">>>>,
      <<"U+1E6F", <<"U+1E6E">>>>, <<"U+1E71", <<"U+1E70">>>>,
      <<"U+1E73", <<"U+1E72">>>>, <<"U+1E75", <<"U+1E74">>>>,
      <<"U+1E77", <<"U+1E76">>>>, <<"U+1E79", <<"U+1E78">>>>,
      <<"U+1E7B", <<"U+1E7A">>>>, <<"U+1E7D", <<"U+1E7C">>>>,
      <<"U+1E7F", <<"U+1E7E">>>>, <<"U+1E81", <<"U+1E80">>>>,
      <<"U+1E83", <<"U+1E82">>>>, <<"U+1E85", <<"U+1E84">>>>,
      <<"U+1E87", <<"U+1E86">>>>, <<"U+1E89", <<"U+1E88">>>>,
      <<"U+1E8B", <<"U+1E8A">>>>, <<"U+1E8D", <<"U+1E8C">>>>,
      <<"U+1E8F", <<"U+1E8E">>>>, <<"U+1E91", <<"U+1E90">>>>,
      <<"U+1E93", <<"U+1E92">>>>, <<"U+1E95", <<"U+1E94">>>>,
      <<"U+1E96", <<"H", "U+0331">>>>, <<"U+1E97", <<"T", "U+0308">>>>,
      <<"U+1E98", <<"W", "U+030A">>>>, <<"U+1E99", <<"Y", "U+030A">>>>,
      <<"U+1E9A", <<"A", "U+02BE">>>>, <<"U+1E9B", <<"U+1E60">>>>,
      <<"U+1EA1", <<"U+1EA0">>>>, <<"U+1EA3", <<"U+1EA2">>>>,
      <<"U+1EA5", <<"U+1EA4">>>>, <<"U+1EA7", <<"U+1EA6">>>>,
      <<"U+1EA9", <<"U+1EA8">>>>, <<"U+1EAB", <<"U+1EAA">>>>,
      <<"U+1EAD", <<"U+1EAC">>>>, <<"U+1EAF", <<"U+1EAE">>>>,
      <<"U+1EB1", <<"U+1EB0">>>>, <<"U+1EB3", <<"U+1EB2">>>>,
      <<"U+1EB5", <<"U+1EB4">>>>, <<"U+1EB7", <<"U+1EB6">>>>,
      <<"U+1EB9", <<"U+1EB8">>>>, <<"U+1EBB", <<"U+1EBA">>>>,
      <<"U+1EBD", <<"U+1EBC">>>>, <<"U+1EBF", <<"U+1EBE">>>>,
      <<"U+1EC1", <<"U+1EC0">>>>, <<"U+1EC3", <<"U+1EC2">>>>,
      <<"U+1EC5", <<"U+1EC4">>>>, <<"U+1EC7", <<"U+1EC6">>>>,
      <<"U+1EC9", <<"U+1EC8">>>>, <<"U+1ECB", <<"U+1ECA">>>>,
      <<"U+1ECD", <<"U+1ECC">>>>, <<"U+1ECF", <<"U+1ECE">>>>,
      <<"U+1ED1", <<"U+1ED0">>>>, <<"U+1ED3", <<"U+1ED2">>>>,
      <<"U+1ED5", <<"U+1ED4">>>>, <<"U+1ED7", <<"U+1ED6">>>>,
      <<"U+1ED9", <<"U+1ED8">>>>, <<"U+1EDB", <<"U+1EDA">>>>,
      <<"U+1EDD", <<"U+1EDC">>>>, <<"U+1EDF", <<"U+1EDE">>>>,
      <<"U+1EE1", <<"U+1EE0">>>>, <<"U+1EE3", <<"U+1EE2">>>>,
      <<"U+1EE5", <<"U+1EE4">>>>, <<"U+1EE7", <<"U+1EE6">>>>,
      <<"U+1EE9", <<"U+1EE8">>>>, <<"U+1EEB", <<"U+1EEA">>>>,
      <<"U+1EED", <<"U+1EEC">>>>, <<"U+1EEF", <<"U+1EEE">>>>,
      <<"U+1EF1", <<"U+1EF0">>>>, <<"U+1EF3", <<"U+1EF2">>>>,
      <<"U+1EF5", <<"U+1EF4">>>>, <<"U+1EF7", <<"U+1EF6">>>>,
      <<"U+1EF9", <<"U+1EF8">>>>, <<"U+1EFB", <<"U+1EFA">>>>,
      <<"U+1EFD", <<"U+1EFC">>>>, <<"U+1EFF", <<"U+1EFE">>>>,
      <<"U+1F00", <<"U+1F08">>>>, <<"U+1F01", <<"U+1F09">>>>,
      <<"U+1F02", <<"U+1F0A">>>>, <<"U+1F03", <<"U+1F0B">>>>,
      <<"U+1F04", <<"U+1F0C">>>>, <<"U+1F05", <<"U+1F0D">>>>,
      <<"U+1F06", <<"U+1F0E">>>>, <<"U+1F07", <<"U+1F0F">>>>,
      <<"U+1F10", <<"U+1F18">>>>, <<"U+1F11", <<"U+1F19">>>>,
      <<"U+1F12", <<"U+1F1A">>>>, <<"U+1F13", <<"U+1F1B">>>>,
      <<"U+1F14", <<"U+1F1C">>>>, <<"U+1F15", <<"U+1F1D">>>>,
      <<"U+1F20", <<"U+1F28">>>>, <<"U+1F21", <<"U+1F29">>>>,
      <<"U+1F22", <<"U+1F2A">>>>, <<"U+1F23", <<"U+1F2B">>>>,
      <<"U+1F24", <<"U+1F2C">>>>, <<"U+1F25", <<"U+1F2D">>>>,
      <<"U+1F26", <<"U+1F2E">>>>, <<"U+1F27", <<"U+1F2F">>>>,
      <<"U+1F30", <<"U+1F38">>>>, <<"U+1F31", <<"U+1F39">>>>,
      <<"U+1F32", <<"U+1F3A">>>>, <<"U+1F33", <<"U+1F3B">>>>,
      <<"U+1F34", <<"U+1F3C">>>>, <<"U+1F35", <<"U+1F3D">>>>,
      <<"U+1F36", <<"U+1F3E">>>>, <<"U+1F37", <<"U+1F3F">>>>,
      <<"U+1F40", <<"U+1F48">>>>, <<"U+1F41", <<"U+1F49">>>>,
      <<"U+1F42", <<"U+1F4A">>>>, <<"U+1F43", <<"U+1F4B">>>>,
      <<"U+1F44", <<"U+1F4C">>>>, <<"U+1F45", <<"U+1F4D">>>>,
      <<"U+1F50", <<"U+03A5", "U+0313">>>>, <<"U+1F51", <<"U+1F59">>>>,
      <<"U+1F52", <<"U+03A5", "U+0313", "U+0300">>>>,
      <<"U+1F53", <<"U+1F5B">>>>,
      <<"U+1F54", <<"U+03A5", "U+0313", "U+0301">>>>,
      <<"U+1F55", <<"U+1F5D">>>>,
      <<"U+1F56", <<"U+03A5", "U+0313", "U+0342">>>>,
      <<"U+1F57", <<"U+1F5F">>>>, <<"U+1F60", <<"U+1F68">>>>,
      <<"U+1F61", <<"U+1F69">>>>, <<"U+1F62", <<"U+1F6A">>>>,
      <<"U+1F63", <<"U+1F6B">>>>, <<"U+1F64", <<"U+1F6C">>>>,
      <<"U+1F65", <<"U+1F6D">>>>, <<"U+1F66", <<"U+1F6E">>>>,
      <<"U+1F67", <<"U+1F6F">>>>, <<"U+1F70", <<"U+1FBA">>>>,
      <<"U+1F71", <<"U+1FBB">>>>, <<"U+1F72", <<"U+1FC8">>>>,
      <<"U+1F73", <<"U+1FC9">>>>, <<"U+1F74", <<"U+1FCA">>>>,
      <<"U+1F75", <<"U+1FCB">>>>, <<"U+1F76", <<"U+1FDA">>>>,
      <<"U+1F77", <<"U+1FDB">>>>, <<"U+1F78", <<"U+1FF8">>>>,
      <<"U+1F79", <<"U+1FF9">>>>, <<"U+1F7A", <<"U+1FEA">>>>,
      <<"U+1F7B", <<"U+1FEB">>>>, <<"U+1F7C", <<"U+1FFA">>>>,
      <<"U+1F7D", <<"U+1FFB">>>>, <<"U+1F80", <<"U+1F08", "U+0399">>>>,
      <<"U+1F81", <<"U+1F09", "U+0399">>>>,
      <<"U+1F82", <<"U+1F0A", "U+0399">>>>,
      <<"U+1F83", <<"U+1F0B", "U+0399">>>>,
      <<"U+1F84", <<"U+1F0C", "U+0399">>>>,
      <<"U+1F85", <<"U+1F0D", "U+0399">>>>,
      <<"U+1F86", <<"U+1F0E", "U+0399">>>>,
      <<"U+1F87", <<"U+1F0F", "U+0399">>>>,
      <<"U+1F88", <<"U+1F08", "U+0399">>>>,
      <<"U+1F89", <<"U+1F09", "U+0399">>>>,
      <<"U+1F8A", <<"U+1F0A", "U+0399">>>>,
      <<"U+1F8B", <<"U+1F0B", "U+0399">>>>,
      <<"U+1F8C", <<"U+1F0C", "U+0399">>>>,
      <<"U+1F8D", <<"U+1F0D", "U+0399">>>>,
      <<"U+1F8E", <<"U+1F0E", "U+0399">>>>,
      <<"U+1F8F", <<"U+1F0F", "U+0399">>>>,
      <<"U+1F90", <<"U+1F28", "U+0399">>>>,
      <<"U+1F91", <<"U+1F29", "U+0399">>>>,
      <<"U+1F92", <<"U+1F2A", "U+0399">>>>,
      <<"U+1F93", <<"U+1F2B", "U+0399">>>>,
      <<"U+1F94", <<"U+1F2C", "U+0399">>>>,
      <<"U+1F95", <<"U+1F2D", "U+0399">>>>,
      <<"U+1F96", <<"U+1F2E", "U+0399">>>>,
      <<"U+1F97", <<"U+1F2F", "U+0399">>>>,
      <<"U+1F98", <<"U+1F28", "U+0399">>>>,
      <<"U+1F99", <<"U+1F29", "U+0399">>>>,
      <<"U+1F9A", <<"U+1F2A", "U+0399">>>>,
      <<"U+1F9B", <<"U+1F2B", "U+0399">>>>,
      <<"U+1F9C", <<"U+1F2C", "U+0399">>>>,
      <<"U+1F9D", <<"U+1F2D", "U+0399">>>>,
      <<"U+1F9E", <<"U+1F2E", "U+0399">>>>,
      <<"U+1F9F", <<"U+1F2F", "U+0399">>>>,
      <<"U+1FA0", <<"U+1F68", "U+0399">>>>,
      <<"U+1FA1", <<"U+1F69", "U+0399">>>>,
      <<"U+1FA2", <<"U+1F6A", "U+0399">>>>,
      <<"U+1FA3", <<"U+1F6B", "U+0399">>>>,
      <<"U+1FA4", <<"U+1F6C", "U+0399">>>>,
      <<"U+1FA5", <<"U+1F6D", "U+0399">>>>,
      <<"U+1FA6", <<"U+1F6E", "U+0399">>>>,
      <<"U+1FA7", <<"U+1F6F", "U+0399">>>>,
      <<"U+1FA8", <<"U+1F68", "U+0399">>>>,
      <<"U+1FA9", <<"U+1F69", "U+0399">>>>,
      <<"U+1FAA", <<"U+1F6A", "U+0399">>>>,
      <<"U+1FAB", <<"U+1F6B", "U+0399">>>>,
      <<"U+1FAC", <<"U+1F6C", "U+0399">>>>,
      <<"U+1FAD", <<"U+1F6D", "U+0399">>>>,
      <<"U+1FAE", <<"U+1F6E", "U+0399">>>>,
      <<"U+1FAF", <<"U+1F6F", "U+0399">>>>, <<"U+1FB0", <<"U+1FB8">>>>,
      <<"U+1FB1", <<"U+1FB9">>>>, <<"U+1FB2", <<"U+1FBA", "U+0399">>>>,
      <<"U+1FB3", <<"U+0391", "U+0399">>>>,
      <<"U+1FB4", <<"U+0386", "U+0399">>>>,
      <<"U+1FB6", <<"U+0391", "U+0342">>>>,
      <<"U+1FB7", <<"U+0391", "U+0342", "U+0399">>>>,
      <<"U+1FBC", <<"U+0391", "U+0399">>>>, <<"U+1FBE", <<"U+0399">>>>,
      <<"U+1FC2", <<"U+1FCA", "U+0399">>>>,
      <<"U+1FC3", <<"U+0397", "U+0399">>>>,
      <<"U+1FC4", <<"U+0389", "U+0399">>>>,
      <<"U+1FC6", <<"U+0397", "U+0342">>>>,
      <<"U+1FC7", <<"U+0397", "U+0342", "U+0399">>>>,
      <<"U+1FCC", <<"U+0397", "U+0399">>>>, <<"U+1FD0", <<"U+1FD8">>>>,
      <<"U+1FD1", <<"U+1FD9">>>>,
      <<"U+1FD2", <<"U+0399", "U+0308", "U+0300">>>>,
      <<"U+1FD3", <<"U+0399", "U+0308", "U+0301">>>>,
      <<"U+1FD6", <<"U+0399", "U+0342">>>>,
      <<"U+1FD7", <<"U+0399", "U+0308", "U+0342">>>>,
      <<"U+1FE0", <<"U+1FE8">>>>, <<"U+1FE1", <<"U+1FE9">>>>,
      <<"U+1FE2", <<"U+03A5", "U+0308", "U+0300">>>>,
      <<"U+1FE3", <<"U+03A5", "U+0308", "U+0301">>>>,
      <<"U+1FE4", <<"U+03A1", "U+0313">>>>, <<"U+1FE5", <<"U+1FEC">>>>,
      <<"U+1FE6", <<"U+03A5", "U+0342">>>>,
      <<"U+1FE7", <<"U+03A5", "U+0308", "U+0342">>>>,
      <<"U+1FF2", <<"U+1FFA", "U+0399">>>>,
      <<"U+1FF3", <<"U+03A9", "U+0399">>>>,
      <<"U+1FF4", <<"U+038F", "U+0399">>>>,
      <<"U+1FF6", <<"U+03A9", "U+0342">>>>,
      <<"U+1FF7", <<"U+03A9", "U+0342", "U+0399">>>>,
      <<"U+1FFC", <<"U+03A9", "U+0399">>>>, <<"U+214E", <<"U+2132">>>>,
      <<"U+2170", <<"U+2160">>>>, <<"U+2171", <<"U+2161">>>>,
      <<"U+2172", <<"U+2162">>>>, <<"U+2173", <<"U+2163">>>>,
      <<"U+2174", <<"U+2164">>>>, <<"U+2175", <<"U+2165">>>>,
      <<"U+2176", <<"U+2166">>>>, <<"U+2177", <<"U+2167">>>>,
      <<"U+2178", <<"U+2168">>>>, <<"U+2179", <<"U+2169">>>>,
      <<"U+217A", <<"U+216A">>>>, <<"U+217B", <<"U+216B">>>>,
      <<"U+217C", <<"U+216C">>>>, <<"U+217D", <<"U+216D">>>>,
      <<"U+217E", <<"U+216E">>>>, <<"U+217F", <<"U+216F">>>>,
      <<"U+2184", <<"U+2183">>>>, <<"U+24D0", <<"U+24B6">>>>,
      <<"U+24D1", <<"U+24B7">>>>, <<"U+24D2", <<"U+24B8">>>>,
      <<"U+24D3", <<"U+24B9">>>>, <<"U+24D4", <<"U+24BA">>>>,
      <<"U+24D5", <<"U+24BB">>>>, <<"U+24D6", <<"U+24BC">>>>,
      <<"U+24D7", <<"U+24BD">>>>, <<"U+24D8", <<"U+24BE">>>>,
      <<"U+24D9", <<"U+24BF">>>>, <<"U+24DA", <<"U+24C0">>>>,
      <<"U+24DB", <<"U+24C1">>>>, <<"U+24DC", <<"U+24C2">>>>,
      <<"U+24DD", <<"U+24C3">>>>, <<"U+24DE", <<"U+24C4">>>>,
      <<"U+24DF", <<"U+24C5">>>>, <<"U+24E0", <<"U+24C6">>>>,
      <<"U+24E1", <<"U+24C7">>>>, <<"U+24E2", <<"U+24C8">>>>,
      <<"U+24E3", <<"U+24C9">>>>, <<"U+24E4", <<"U+24CA">>>>,
      <<"U+24E5", <<"U+24CB">>>>, <<"U+24E6", <<"U+24CC">>>>,
      <<"U+24E7", <<"U+24CD">>>>, <<"U+24E8", <<"U+24CE">>>>,
      <<"U+24E9", <<"U+24CF">>>>, <<"U+2C30", <<"U+2C00">>>>,
      <<"U+2C31", <<"U+2C01">>>>, <<"U+2C32", <<"U+2C02">>>>,
      <<"U+2C33", <<"U+2C03">>>>, <<"U+2C34", <<"U+2C04">>>>,
      <<"U+2C35", <<"U+2C05">>>>, <<"U+2C36", <<"U+2C06">>>>,
      <<"U+2C37", <<"U+2C07">>>>, <<"U+2C38", <<"U+2C08">>>>,
      <<"U+2C39", <<"U+2C09">>>>, <<"U+2C3A", <<"U+2C0A">>>>,
      <<"U+2C3B", <<"U+2C0B">>>>, <<"U+2C3C", <<"U+2C0C">>>>,
      <<"U+2C3D", <<"U+2C0D">>>>, <<"U+2C3E", <<"U+2C0E">>>>,
      <<"U+2C3F", <<"U+2C0F">>>>, <<"U+2C40", <<"U+2C10">>>>,
      <<"U+2C41", <<"U+2C11">>>>, <<"U+2C42", <<"U+2C12">>>>,
      <<"U+2C43", <<"U+2C13">>>>, <<"U+2C44", <<"U+2C14">>>>,
      <<"U+2C45", <<"U+2C15">>>>, <<"U+2C46", <<"U+2C16">>>>,
      <<"U+2C47", <<"U+2C17">>>>, <<"U+2C48", <<"U+2C18">>>>,
      <<"U+2C49", <<"U+2C19">>>>, <<"U+2C4A", <<"U+2C1A">>>>,
      <<"U+2C4B", <<"U+2C1B">>>>, <<"U+2C4C", <<"U+2C1C">>>>,
      <<"U+2C4D", <<"U+2C1D">>>>, <<"U+2C4E", <<"U+2C1E">>>>,
      <<"U+2C4F", <<"U+2C1F">>>>, <<"U+2C50", <<"U+2C20">>>>,
      <<"U+2C51", <<"U+2C21">>>>, <<"U+2C52", <<"U+2C22">>>>,
      <<"U+2C53", <<"U+2C23">>>>, <<"U+2C54", <<"U+2C24">>>>,
      <<"U+2C55", <<"U+2C25">>>>, <<"U+2C56", <<"U+2C26">>>>,
      <<"U+2C57", <<"U+2C27">>>>, <<"U+2C58", <<"U+2C28">>>>,
      <<"U+2C59", <<"U+2C29">>>>, <<"U+2C5A", <<"U+2C2A">>>>,
      <<"U+2C5B", <<"U+2C2B">>>>, <<"U+2C5C", <<"U+2C2C">>>>,
      <<"U+2C5D", <<"U+2C2D">>>>, <<"U+2C5E", <<"U+2C2E">>>>,
      <<"U+2C5F", <<"U+2C2F">>>>, <<"U+2C61", <<"U+2C60">>>>,
      <<"U+2C65", <<"U+023A">>>>, <<"U+2C66", <<"U+023E">>>>,
      <<"U+2C68", <<"U+2C67">>>>, <<"U+2C6A", <<"U+2C69">>>>,
      <<"U+2C6C", <<"U+2C6B">>>>, <<"U+2C73", <<"U+2C72">>>>,
      <<"U+2C76", <<"U+2C75">>>>, <<"U+2C81", <<"U+2C80">>>>,
      <<"U+2C83", <<"U+2C82">>>>, <<"U+2C85", <<"U+2C84">>>>,
      <<"U+2C87", <<"U+2C86">>>>, <<"U+2C89", <<"U+2C88">>>>,
      <<"U+2C8B", <<"U+2C8A">>>>, <<"U+2C8D", <<"U+2C8C">>>>,
      <<"U+2C8F", <<"U+2C8E">>>>, <<"U+2C91", <<"U+2C90">>>>,
      <<"U+2C93", <<"U+2C92">>>>, <<"U+2C95", <<"U+2C94">>>>,
      <<"U+2C97", <<"U+2C96">>>>, <<"U+2C99", <<"U+2C98">>>>,
      <<"U+2C9B", <<"U+2C9A">>>>, <<"U+2C9D", <<"U+2C9C">>>>,
      <<"U+2C9F", <<"U+2C9E">>>>, <<"U+2CA1", <<"U+2CA0">>>>,
      <<"U+2CA3", <<"U+2CA2">>>>, <<"U+2CA5", <<"U+2CA4">>>>,
      <<"U+2CA7", <<"U+2CA6">>>>, <<"U+2CA9", <<"U+2CA8">>>>,
      <<"U+2CAB", <<"U+2CAA">>>>, <<"U+2CAD", <<"U+2CAC">>>>,
      <<"U+2CAF", <<"U+2CAE">>>>, <<"U+2CB1", <<"U+2CB0">>>>,
      <<"U+2CB3", <<"U+2CB2">>>>, <<"U+2CB5", <<"U+2CB4">>>>,
      <<"U+2CB7", <<"U+2CB6">>>>, <<"U+2CB9", <<"U+2CB8">>>>,
      <<"U+2CBB", <<"U+2CBA">>>>, <<"U+2CBD", <<"U+2CBC">>>>,
      <<"U+2CBF", <<"U+2CBE">>>>, <<"U+2CC1", <<"U+2CC0">>>>,
      <<"U+2CC3", <<"U+2CC2">>>>, <<"U+2CC5", <<"U+2CC4">>>>,
      <<"U+2CC7", <<"U+2CC6">>>>, <<"U+2CC9", <<"U+2CC8">>>>,
      <<"U+2CCB", <<"U+2CCA">>>>, <<"U+2CCD", <<"U+2CCC">>>>,
      <<"U+2CCF", <<"U+2CCE">>>>, <<"U+2CD1", <<"U+2CD0">>>>,
      <<"U+2CD3", <<"U+2CD2">>>>, <<"U+2CD5", <<"U+2CD4">>>>,
      <<"U+2CD7", <<"U+2CD6">>>>, <<"U+2CD9", <<"U+2CD8">>>>,
      <<"U+2CDB", <<"U+2CDA">>>>, <<"U+2CDD", <<"U+2CDC">>>>,
      <<"U+2CDF", <<"U+2CDE">>>>, <<"U+2CE1", <<"U+2CE0">>>>,
      <<"U+2CE3", <<"U+2CE2">>>>, <<"U+2CEC", <<"U+2CEB">>>>,
      <<"U+2CEE", <<"U+2CED">>>>, <<"U+2CF3", <<"U+2CF2">>>>,
      <<"U+2D00", <<"U+10A0">>>>, <<"U+2D01", <<"U+10A1">>>>,
      <<"U+2D02", <<"U+10A2">>>>, <<"U+2D03", <<"U+10A3">>>>,
      <<"U+2D04", <<"U+10A4">>>>, <<"U+2D05", <<"U+10A5">>>>,
      <<"U+2D06", <<"U+10A6">>>>, <<"U+2D07", <<"U+10A7">>>>,
      <<"U+2D08", <<"U+10A8">>>>, <<"U+2D09", <<"U+10A9">>>>,
      <<"U+2D0A", <<"U+10AA">>>>, <<"U+2D0B", <<"U+10AB">>>>,
      <<"U+2D0C", <<"U+10AC">>>>, <<"U+2D0D", <<"U+10AD">>>>,
      <<"U+2D0E", <<"U+10AE">>>>, <<"U+2D0F", <<"U+10AF">>>>,
      <<"U+2D10", <<"U+10B0">>>>, <<"U+2D11", <<"U+10B1">>>>,
      <<"U+2D12", <<"U+10B2">>>>, <<"U+2D13", <<"U+10B3">>>>,
      <<"U+2D14", <<"U+10B4">>>>, <<"U+2D15", <<"U+10B5">>>>,
      <<"U+2D16", <<"U+10B6">>>>, <<"U+2D17", <<"U+10B7">>>>,
      <<"U+2D18", <<"U+10B8">>>>, <<"U+2D19", <<"U+10B9">>>>,
      <<"U+2D1A", <<"U+10BA">>>>, <<"U+2D1B", <<"U+10BB">>>>,
      <<"U+2D1C", <<"U+10BC">>>>, <<"U+2D1D", <<"U+10BD">>>>,
      <<"U+2D1E", <<"U+10BE">>>>, <<"U+2D1F", <<"U+10BF">>>>,
      <<"U+2D20", <<"U+10C0">>>>, <<"U+2D21", <<"U+10C1">>>>,
      <<"U+2D22", <<"U+10C2">>>>, <<"U+2D23", <<"U+10C3">>>>,
      <<"U+2D24", <<"U+10C4">>>>, <<"U+2D25", <<"U+10C5">>>>,
      <<"U+2D27", <<"U+10C7">>>>, <<"U+2D2D", <<"U+10CD">>>>,
      <<"U+A641", <<"U+A640">>>>, <<"U+A643", <<"U+A642">>>>,
      <<"U+A645", <<"U+A644">>>>, <<"U+A647", <<"U+A646">>>>,
      <<"U+A649", <<"U+A648">>>>, <<"U+A64B", <<"U+A64A">>>>,
      <<"U+A64D", <<"U+A64C">>>>, <<"U+A64F", <<"U+A64E">>>>,
      <<"U+A651", <<"U+A650">>>>, <<"U+A653", <<"U+A652">>>>,
      <<"U+A655", <<"U+A654">>>>, <<"U+A657", <<"U+A656">>>>,
      <<"U+A659", <<"U+A658">>>>, <<"U+A65B", <<"U+A65A">>>>,
      <<"U+A65D", <<"U+A65C">>>>, <<"U+A65F", <<"U+A65E">>>>,
      <<"U+A661", <<"U+A660">>>>, <<"U+A663", <<"U+A662">>>>,
      <<"U+A665", <<"U+A664">>>>, <<"U+A667", <<"U+A666">>>>,
      <<"U+A669", <<"U+A668">>>>, <<"U+A66B", <<"U+A66A">>>>,
      <<"U+A66D", <<"U+A66C">>>>, <<"U+A681", <<"U+A680">>>>,
      <<"U+A683", <<"U+A682">>>>, <<"U+A685", <<"U+A684">>>>,
      <<"U+A687", <<"U+A686">>>>, <<"U+A689", <<"U+A688">>>>,
      <<"U+A68B", <<"U+A68A">>>>, <<"U+A68D", <<"U+A68C">>>>,
      <<"U+A68F", <<"U+A68E">>>>, <<"U+A691", <<"U+A690">>>>,
      <<"U+A693", <<"U+A692">>>>, <<"U+A695", <<"U+A694">>>>,
      <<"U+A697", <<"U+A696">>>>, <<"U+A699", <<"U+A698">>>>,
      <<"U+A69B", <<"U+A69A">>>>, <<"U+A723", <<"U+A722">>>>,
      <<"U+A725", <<"U+A724">>>>, <<"U+A727", <<"U+A726">>>>,
      <<"U+A729", <<"U+A728">>>>, <<"U+A72B", <<"U+A72A">>>>,
      <<"U+A72D", <<"U+A72C">>>>, <<"U+A72F", <<"U+A72E">>>>,
      <<"U+A733", <<"U+A732">>>>, <<"U+A735", <<"U+A734">>>>,
      <<"U+A737", <<"U+A736">>>>, <<"U+A739", <<"U+A738">>>>,
      <<"U+A73B", <<"U+A73A">>>>, <<"U+A73D", <<"U+A73C">>>>,
      <<"U+A73F", <<"U+A73E">>>>, <<"U+A741", <<"U+A740">>>>,
      <<"U+A743", <<"U+A742">>>>, <<"U+A745", <<"U+A744">>>>,
      <<"U+A747", <<"U+A746">>>>, <<"U+A749", <<"U+A748">>>>,
      <<"U+A74B", <<"U+A74A">>>>, <<"U+A74D", <<"U+A74C">>>>,
      <<"U+A74F", <<"U+A74E">>>>, <<"U+A751", <<"U+A750">>>>,
      <<"U+A753", <<"U+A752">>>>, <<"U+A755", <<"U+A754">>>>,
      <<"U+A757", <<"U+A756">>>>, <<"U+A759", <<"U+A758">>>>,
      <<"U+A75B", <<"U+A75A">>>>, <<"U+A75D", <<"U+A75C">>>>,
      <<"U+A75F", <<"U+A75E">>>>, <<"U+A761", <<"U+A760">>>>,
      <<"U+A763", <<"U+A762">>>>, <<"U+A765", <<"U+A764">>>>,
      <<"U+A767", <<"U+A766">>>>, <<"U+A769", <<"U+A768">>>>,
      <<"U+A76B", <<"U+A76A">>>>, <<"U+A76D", <<"U+A76C">>>>,
      <<"U+A76F", <<"U+A76E">>>>, <<"U+A77A", <<"U+A779">>>>,
      <<"U+A77C", <<"U+A77B">>>>, <<"U+A77F", <<"U+A77E">>>>,
      <<"U+A781", <<"U+A780">>>>, <<"U+A783", <<"U+A782">>>>,
      <<"U+A785", <<"U+A784">>>>, <<"U+A787", <<"U+A786">>>>,
      <<"U+A78C", <<"U+A78B">>>>, <<"U+A791", <<"U+A790">>>>,
      <<"U+A793", <<"U+A792">>>>, <<"U+A794", <<"U+A7C4">>>>,
      <<"U+A797", <<"U+A796">>>>, <<"U+A799", <<"U+A798">>>>,
      <<"U+A79B", <<"U+A79A">>>>, <<"U+A79D", <<"U+A79C">>>>,
      <<"U+A79F", <<"U+A79E">>>>, <<"U+A7A1", <<"U+A7A0">>>>,
      <<"U+A7A3", <<"U+A7A2">>>>, <<"U+A7A5", <<"U+A7A4">>>>,
      <<"U+A7A7", <<"U+A7A6">>>>, <<"U+A7A9", <<"U+A7A8">>>>,
      <<"U+A7B5", <<"U+A7B4">>>>, <<"U+A7B7", <<"U+A7B6">>>>,
      <<"U+A7B9", <<"U+A7B8">>>>, <<"U+A7BB", <<"U+A7BA">>>>,
      <<"U+A7BD", <<"U+A7BC">>>>, <<"U+A7BF", <<"U+A7BE">>>>,
      <<"U+A7C1", <<"U+A7C0">>>>, <<"U+A7C3", <<"U+A7C2">>>>,
      <<"U+A7C8", <<"U+A7C7">>>>, <<"U+A7CA", <<"U+A7C9">>>>,
      <<"U+A7D1", <<"U+A7D0">>>>, <<"U+A7D7", <<"U+A7D6">>>>,
      <<"U+A7D9", <<"U+A7D8">>>>, <<"U+A7F6", <<"U+A7F5">>>>,
      <<"U+AB53", <<"U+A7B3">>>>, <<"U+AB70", <<"U+13A0">>>>,
      <<"U+AB71", <<"U+13A1">>>>, <<"U+AB72", <<"U+13A2">>>>,
      <<"U+AB73", <<"U+13A3">>>>, <<"U+AB74", <<"U+13A4">>>>,
      <<"U+AB75", <<"U+13A5">>>>, <<"U+AB76", <<"U+13A6">>>>,
      <<"U+AB77", <<"U+13A7">>>>, <<"U+AB78", <<"U+13A8">>>>,
      <<"U+AB79", <<"U+13A9">>>>, <<"U+AB7A", <<"U+13AA">>>>,
      <<"U+AB7B", <<"U+13AB">>>>, <<"U+AB7C", <<"U+13AC">>>>,
      <<"U+AB7D", <<"U+13AD">>>>, <<"U+AB7E", <<"U+13AE">>>>,
      <<"U+AB7F", <<"U+13AF">>>>, <<"U+AB80", <<"U+13B0">>>>,
      <<"U+AB81", <<"U+13B1">>>>, <<"U+AB82", <<"U+13B2">>>>,
      <<"U+AB83", <<"U+13B3">>>>, <<"U+AB84", <<"U+13B4">>>>,
      <<"U+AB85", <<"U+13B5">>>>, <<"U+AB86", <<"U+13B6">>>>,
      <<"U+AB87", <<"U+13B7">>>>, <<"U+AB88", <<"U+13B8">>>>,
      <<"U+AB89", <<"U+13B9">>>>, <<"U+AB8A", <<"U+13BA">>>>,
      <<"U+AB8B", <<"U+13BB">>>>, <<"U+AB8C", <<"U+13BC">>>>,
      <<"U+AB8D", <<"U+13BD">>>>, <<"U+AB8E", <<"U+13BE">>>>,
      <<"U+AB8F", <<"U+13BF">>>>, <<"U+AB90", <<"U+13C0">>>>,
      <<"U+AB91", <<"U+13C1">>>>, <<"U+AB92", <<"U+13C2">>>>,
      <<"U+AB93", <<"U+13C3">>>>, <<"U+AB94", <<"U+13C4">>>>,
      <<"U+AB95", <<"U+13C5">>>>, <<"U+AB96", <<"U+13C6">>>>,
      <<"U+AB97", <<"U+13C7">>>>, <<"U+AB98", <<"U+13C8">>>>,
      <<"U+AB99", <<"U+13C9">>>>, <<"U+AB9A", <<"U+13CA">>>>,
      <<"U+AB9B", <<"U+13CB">>>>, <<"U+AB9C", <<"U+13CC">>>>,
      <<"U+AB9D", <<"U+13CD">>>>, <<"U+AB9E", <<"U+13CE">>>>,
      <<"U+AB9F", <<"U+13CF">>>>, <<"U+ABA0", <<"U+13D0">>>>,
      <<"U+ABA1", <<"U+13D1">>>>, <<"U+ABA2", <<"U+13D2">>>>,
      <<"U+ABA3", <<"U+13D3">>>>, <<"U+ABA4", <<"U+13D4">>>>,
      <<"U+ABA5", <<"U+13D5">>>>, <<"U+ABA6", <<"U+13D6">>>>,
      <<"U+ABA7", <<"U+13D7">>>>, <<"U+ABA8", <<"U+13D8">>>>,
      <<"U+ABA9", <<"U+13D9">>>>, <<"U+ABAA", <<"U+13DA">>>>,
      <<"U+ABAB", <<"U+13DB">>>>, <<"U+ABAC", <<"U+13DC">>>>,
      <<"U+ABAD", <<"U+13DD">>>>, <<"U+ABAE", <<"U+13DE">>>>,
      <<"U+ABAF", <<"U+13DF">>>>, <<"U+ABB0", <<"U+13E0">>>>,
      <<"U+ABB1", <<"U+13E1">>>>, <<"U+ABB2", <<"U+13E2">>>>,
      <<"U+ABB3", <<"U+13E3">>>>, <<"U+ABB4", <<"U+13E4">>>>,
      <<"U+ABB5", <<"U+13E5">>>>, <<"U+ABB6", <<"U+13E6">>>>,
      <<"U+ABB7", <<"U+13E7">>>>, <<"U+ABB8", <<"U+13E8">>>>,
      <<"U+ABB9", <<"U+13E9">>>>, <<"U+ABBA", <<"U+13EA">>>>,
      <<"U+ABBB", <<"U+13EB">>>>, <<"U+ABBC", <<"U+13EC">>>>,
      <<"U+ABBD", <<"U+13ED">>>>, <<"U+ABBE", <<"U+13EE">>>>,
      <<"U+ABBF", <<"U+13EF">>>>, <<"U+FB00", <<"F", "F">>>>,
      <<"U+FB01", <<"F", "I">>>>, <<"U+FB02", <<"F", "L">>>>,
      <<"U+FB03", <<"F", "F", "I">>>>, <<"U+FB04", <<"F", "F", "L">>>>,
      <<"U+FB05", <<"S", "T">>>>, <<"U+FB06", <<"S", "T">>>>,
      <<"U+FB13", <<"U+0544", "U+0546">>>>,
      <<"U+FB14", <<"U+0544", "U+0535">>>>,
      <<"U+FB15", <<"U+0544", "U+053B">>>>,
      <<"U+FB16", <<"U+054E", "U+0546">>>>,
      <<"U+FB17", <<"U+0544", "U+053D">>>>, <<"U+FF41", <<"U+FF21">>>>,
      <<"U+FF42", <<"U+FF22">>>>, <<"U+FF43", <<"U+FF23">>>>,
      <<"U+FF44", <<"U+FF24">>>>, <<"U+FF45", <<"U+FF25">>>>,
      <<"U+FF46", <<"U+FF26">>>>, <<"U+FF47", <<"U+FF27">>>>,
      <<"U+FF48", <<"U+FF28">>>>, <<"U+FF49", <<"U+FF29">>>>,
      <<"U+FF4A", <<"U+FF2A">>>>, <<"U+FF4B", <<"U+FF2B">>>>,
      <<"U+FF4C", <<"U+FF2C">>>>, <<"U+FF4D", <<"U+FF2D">>>>,
      <<"U+FF4E", <<"U+FF2E">>>>, <<"U+FF4F", <<"U+FF2F">>>>,
      <<"U+FF50", <<"U+FF30">>>>, <<"U+FF51", <<"U+FF31">>>>,
      <<"U+FF52", <<"U+FF32">>>>, <<"U+FF53", <<"U+FF33">>>>,
      <<"U+FF54", <<"U+FF34">>>>, <<"U+FF55", <<"U+FF35">>>>,
      <<"U+FF56", <<"U+FF36">>>>, <<"U+FF57", <<"U+FF37">>>>,
      <<"U+FF58", <<"U+FF38">>>>, <<"U+FF59", <<"U+FF39">>>>,
      <<"U+FF5A", <<"U+FF3A">>>>, <<"U+10428", <<"U+10400">>>>,
      <<"U+10429", <<"U+10401">>>>, <<"U+1042A", <<"U+10402">>>>,
      <<"U+1042B", <<"U+10403">>>>, <<"U+1042C", <<"U+10404">>>>,
      <<"U+1042D", <<"U+10405">>>>, <<"U+1042E", <<"U+10406">>>>,
      <<"U+1042F", <<"U+10407">>>>, <<"U+10430", <<"U+10408">>>>,
      <<"U+10431", <<"U+10409">>>>, <<"U+10432", <<"U+1040A">>>>,
      <<"U+10433", <<"U+1040B">>>>, <<"U+10434", <<"U+1040C">>>>,
      <<"U+10435", <<"U+1040D">>>>, <<"U+10436", <<"U+1040E">>>>,
      <<"U+10437", <<"U+1040F">>>>, <<"U+10438", <<"U+10410">>>>,
      <<"U+10439", <<"U+10411">>>>, <<"U+1043A", <<"U+10412">>>>,
      <<"U+1043B", <<"U+10413">>>>, <<"U+1043C", <<"U+10414">>>>,
      <<"U+1043D", <<"U+10415">>>>, <<"U+1043E", <<"U+10416">>>>,
      <<"U+1043F", <<"U+10417">>>>, <<"U+10440", <<"U+10418">>>>,
      <<"U+10441", <<"U+10419">>>>, <<"U+10442", <<"U+1041A">>>>,
      <<"U+10443", <<"U+1041B">>>>, <<"U+10444", <<"U+1041C">>>>,
      <<"U+10445", <<"U+1041D">>>>, <<"U+10446", <<"U+1041E">>>>,
      <<"U+10447", <<"U+1041F">>>>, <<"U+10448", <<"U+10420">>>>,
      <<"U+10449", <<"U+10421">>>>, <<"U+1044A", <<"U+10422">>>>,
      <<"U+1044B", <<"U+10423">>>>, <<"U+1044C", <<"U+10424">>>>,
      <<"U+1044D", <<"U+10425">>>>, <<"U+1044E", <<"U+10426">>>>,
      <<"U+1044F", <<"U+10427">>>>, <<"U+104D8", <<"U+104B0">>>>,
      <<"U+104D9", <<"U+104B1">>>>, <<"U+104DA", <<"U+104B2">>>>,
      <<"U+104DB", <<"U+104B3">>>>, <<"U+104DC", <<"U+104B4">>>>,
      <<"U+104DD", <<"U+104B5">>>>, <<"U+104DE", <<"U+104B6">>>>,
      <<"U+104DF", <<"U+104B7">>>>, <<"U+104E0", <<"U+104B8">>>>,
      <<"U+104E1", <<"U+104B9">>>>, <<"U+104E2", <<"U+104BA">>>>,
      <<"U+104E3", <<"U+104BB">>>>, <<"U+104E4", <<"U+104BC">>>>,
      <<"U+104E5", <<"U+104BD">>>>, <<"U+104E6", <<"U+104BE">>>>,
      <<"U+104E7", <<"U+104BF">>>>, <<"U+104E8", <<"U+104C0">>>>,
      <<"U+104E9", <<"U+104C1">>>>, <<"U+104EA", <<"U+104C2">>>>,
      <<"U+104EB", <<"U+104C3">>>>, <<"U+104EC", <<"U+104C4">>>>,
      <<"U+104ED", <<"U+104C5">>>>, <<"U+104EE", <<"U+104C6">>>>,
      <<"U+104EF", <<"U+104C7">>>>, <<"U+104F0", <<"U+104C8">>>>,
      <<"U+104F1", <<"U+104C9">>>>, <<"U+104F2", <<"U+104CA">>>>,
      <<"U+104F3", <<"U+104CB">>>>, <<"U+104F4", <<"U+104CC">>>>,
      <<"U+104F5", <<"U+104CD">>>>, <<"U+104F6", <<"U+104CE">>>>,
      <<"U+104F7", <<"U+104CF">>>>, <<"U+104F8", <<"U+104D0">>>>,
      <<"U+104F9", <<"U+104D1">>>>, <<"U+104FA", <<"U+104D2">>>>,
      <<"U+104FB", <<"U+104D3">>>>, <<"U+10597", <<"U+10570">>>>,
      <<"U+10598", <<"U+10571">>>>, <<"U+10599", <<"U+10572">>>>,
      <<"U+1059A", <<"U+10573">>>>, <<"U+1059B", <<"U+10574">>>>,
      <<"U+1059C", <<"U+10575">>>>, <<"U+1059D", <<"U+10576">>>>,
      <<"U+1059E", <<"U+10577">>>>, <<"U+1059F", <<"U+10578">>>>,
      <<"U+105A0", <<"U+10579">>>>, <<"U+105A1", <<"U+1057A">>>>,
      <<"U+105A3", <<"U+1057C">>>>, <<"U+105A4", <<"U+1057D">>>>,
      <<"U+105A5", <<"U+1057E">>>>, <<"U+105A6", <<"U+1057F">>>>,
      <<"U+105A7", <<"U+10580">>>>, <<"U+105A8", <<"U+10581">>>>,
      <<"U+105A9", <<"U+10582">>>>, <<"U+105AA", <<"U+10583">>>>,
      <<"U+105AB", <<"U+10584">>>>, <<"U+105AC", <<"U+10585">>>>,
      <<"U+105AD", <<"U+10586">>>>, <<"U+105AE", <<"U+10587">>>>,
      <<"U+105AF", <<"U+10588">>>>, <<"U+105B0", <<"U+10589">>>>,
      <<"U+105B1", <<"U+1058A">>>>, <<"U+105B3", <<"U+1058C">>>>,
      <<"U+105B4", <<"U+1058D">>>>, <<"U+105B5", <<"U+1058E">>>>,
      <<"U+105B6", <<"U+1058F">>>>, <<"U+105B7", <<"U+10590">>>>,
      <<"U+105B8", <<"U+10591">>>>, <<"U+105B9", <<"U+10592">>>>,
      <<"U+105BB", <<"U+10594">>>>, <<"U+105BC", <<"U+10595">>>>,
      <<"U+10CC0", <<"U+10C80">>>>, <<"U+10CC1", <<"U+10C81">>>>,
      <<"U+10CC2", <<"U+10C82">>>>, <<"U+10CC3", <<"U+10C83">>>>,
      <<"U+10CC4", <<"U+10C84">>>>, <<"U+10CC5", <<"U+10C85">>>>,
      <<"U+10CC6", <<"U+10C86">>>>, <<"U+10CC7", <<"U+10C87">>>>,
      <<"U+10CC8", <<"U+10C88">>>>, <<"U+10CC9", <<"U+10C89">>>>,
      <<"U+10CCA", <<"U+10C8A">>>>, <<"U+10CCB", <<"U+10C8B">>>>,
      <<"U+10CCC", <<"U+10C8C">>>>, <<"U+10CCD", <<"U+10C8D">>>>,
      <<"U+10CCE", <<"U+10C8E">>>>, <<"U+10CCF", <<"U+10C8F">>>>,
      <<"U+10CD0", <<"U+10C90">>>>, <<"U+10CD1", <<"U+10C91">>>>,
      <<"U+10CD2", <<"U+10C92">>>>, <<"U+10CD3", <<"U+10C93">>>>,
      <<"U+10CD4", <<"U+10C94">>>>, <<"U+10CD5", <<"U+10C95">>>>,
      <<"U+10CD6", <<"U+10C96">>>>, <<"U+10CD7", <<"U+10C97">>>>,
      <<"U+10CD8", <<"U+10C98">>>>, <<"U+10CD9", <<"U+10C99">>>>,
      <<"U+10CDA", <<"U+10C9A">>>>, <<"U+10CDB", <<"U+10C9B">>>>,
      <<"U+10CDC", <<"U+10C9C">>>>, <<"U+10CDD", <<"U+10C9D">>>>,
      <<"U+10CDE", <<"U+10C9E">>>>, <<"U+10CDF", <<"U+10C9F">>>>,
      <<"U+10CE0", <<"U+10CA0">>>>, <<"U+10CE1", <<"U+10CA1">>>>,
      <<"U+10CE2", <<"U+10CA2">>>>, <<"U+10CE3", <<"U+10CA3">>>>,
      <<"U+10CE4", <<"U+10CA4">>>>, <<"U+10CE5", <<"U+10CA5">>>>,
      <<"U+10CE6", <<"U+10CA6">>>>, <<"U+10CE7", <<"U+10CA7">>>>,
      <<"U+10CE8", <<"U+10CA8">>>>, <<"U+10CE9", <<"U+10CA9">>>>,
      <<"U+10CEA", <<"U+10CAA">>>>, <<"U+10CEB", <<"U+10CAB">>>>,
      <<"U+10CEC", <<"U+10CAC">>>>, <<"U+10CED", <<"U+10CAD">>>>,
      <<"U+10CEE", <<"U+10CAE">>>>, <<"U+10CEF", <<"U+10CAF">>>>,
      <<"U+10CF0", <<"U+10CB0">>>>, <<"U+10CF1", <<"U+10CB1">>>>,
      <<"U+10CF2", <<"U+10CB2">>>>, <<"U+118C0", <<"U+118A0">>>>,
      <<"U+118C1", <<"U+118A1">>>>, <<"U+118C2", <<"U+118A2">>>>,
      <<"U+118C3", <<"U+118A3">>>>, <<"U+118C4", <<"U+118A4">>>>,
      <<"U+118C5", <<"U+118A5">>>>, <<"U+118C6", <<"U+118A6">>>>,
      <<"U+118C7", <<"U+118A7">>>>, <<"U+118C8", <<"U+118A8">>>>,
      <<"U+118C9", <<"U+118A9">>>>, <<"U+118CA", <<"U+118AA">>>>,
      <<"U+118CB", <<"U+118AB">>>>, <<"U+118CC", <<"U+118AC">>>>,
      <<"U+118CD", <<"U+118AD">>>>, <<"U+118CE", <<"U+118AE">>>>,
      <<"U+118CF", <<"U+118AF">>>>, <<"U+118D0", <<"U+118B0">>>>,
      <<"U+118D1", <<"U+118B1">>>>, <<"U+118D2", <<"U+118B2">>>>,
      <<"U+118D3", <<"U+118B3">>>>, <<"U+118D4", <<"U+118B4">>>>,
      <<"U+118D5", <<"U+118B5">>>>, <<"U+118D6", <<"U+118B6">>>>,
      <<"U+118D7", <<"U+118B7">>>>, <<"U+118D8", <<"U+118B8">>>>,
      <<"U+118D9", <<"U+118B9">>>>, <<"U+118DA", <<"U+118BA">>>>,
      <<"U+118DB", <<"U+118BB">>>>, <<"U+118DC", <<"U+118BC">>>>,
      <<"U+118DD", <<"U+118BD">>>>, <<"U+118DE", <<"U+118BE">>>>,
      <<"U+118DF", <<"U+118BF">>>>, <<"U+16E60", <<"U+16E40">>>>,
      <<"U+16E61", <<"U+16E41">>>>, <<"U+16E62", <<"U+16E42">>>>,
      <<"U+16E63", <<"U+16E43">>>>, <<"U+16E64", <<"U+16E44">>>>,
      <<"U+16E65", <<"U+16E45">>>>, <<"U+16E66", <<"U+16E46">>>>,
      <<"U+16E67", <<"U+16E47">>>>, <<"U+16E68", <<"U+16E48">>>>,
      <<"U+16E69", <<"U+16E49">>>>, <<"U+16E6A", <<"U+16E4A">>>>,
      <<"U+16E6B", <<"U+16E4B">>>>, <<"U+16E6C", <<"U+16E4C">>>>,
      <<"U+16E6D", <<"U+16E4D">>>>, <<"U+16E6E", <<"U+16E4E">>>>,
      <<"U+16E6F", <<"U+16E4F">>>>, <<"U+16E70", <<"U+16E50">>>>,
      <<"U+16E71", <<"U+16E51">>>>, <<"U+16E72", <<"U+16E52">>>>,
      <<"U+16E73", <<"U+16E53">>>>, <<"U+16E74", <<"U+16E54">>>>,
      <<"U+16E75", <<"U+16E55">>>>, <<"U+16E76", <<"U+16E56">>>>,
      <<"U+16E77", <<"U+16E57">>>>, <<"U+16E78", <<"U+16E58">>>>,
      <<"U+16E79", <<"U+16E59">>>>, <<"U+16E7A", <<"U+16E5A">>>>,
      <<"U+16E7B", <<"U+16E5B">>>>, <<"U+16E7C", <<"U+16E5C">>>>,
      <<"U+16E7D", <<"U+16E5D">>>>, <<"U+16E7E", <<"U+16E5E">>>>,
      <<"U+16E7F", <<"U+16E5F">>>>, <<"U+1E922", <<"U+1E900">>>>,
      <<"U+1E923", <<"U+1E901">>>>, <<"U+1E924", <<"U+1E902">>>>,
      <<"U+1E925", <<"U+1E903">>>>, <<"U+1E926", <<"U+1E904">>>>,
      <<"U+1E927", <<"U+1E905">>>>, <<"U+1E928", <<"U+1E906">>>>,
      <<"U+1E929", <<"U+1E907">>>>, <<"U+1E92A", <<"U+1E908">>>>,
      <<"U+1E92B", <<"U+1E909">>>>, <<"U+1E92C", <<"U+1E90A">>>>,
      <<"U+1E92D", <<"U+1E90B">>>>, <<"U+1E92E", <<"U+1E90C">>>>,
      <<"U+1E92F", <<"U+1E90D">>>>, <<"U+1E930", <<"U+1E90E">>>>,
      <<"U+1E931", <<"U+1E90F">>>>, <<"U+1E932", <<"U+1E910">>>>,
      <<"U+1E933", <<"U+1E911">>>>, <<"U+1E934", <<"U+1E912">>>>,
      <<"U+1E935", <<"U+1E913">>>>, <<"U+1E936", <<"U+1E914">>>>,
      <<"U+1E937", <<"U+1E915">>>>, <<"U+1E938", <<"U+1E916">>>>,
      <<"U+1E939", <<"U+1E917">>>>, <<"U+1E93A", <<"U+1E918">>>>,
      <<"U+1E93B", <<"U+1E919">>>>, <<"U+1E93C", <<"U+1E91A">>>>,
      <<"U+1E93D", <<"U+1E91B">>>>, <<"U+1E93E", <<"U+1E91C">>>>,
      <<"U+1E93F", <<"U+1E91D">>>>, <<"U+1E940", <<"U+1E91E">>>>,
      <<"U+1E941", <<"U+1E91F">>>>, <<"U+1E942", <<"U+1E920">>>>,
      <<"U+1E943", <<"U+1E921">>>>
    >>

ToUpper ==
    [c \in {UpperCaseOf[i][1] : i \in DOMAIN UpperCaseOf} |->
        UpperCaseOf[CHOOSE i \in DOMAIN UpperCaseOf : UpperCaseOf[i][1] = c][2]]

\* str.upper() on one character: one character or several
upper_char(c) == IF c \in DOMAIN ToUpper THEN ToUpper[c] ELSE <<c>>

\* str.upper()
RECURSIVE upper(_)
upper(s) == IF s = <<>> THEN <<>> ELSE upper_char(Head(s)) \o upper(Tail(s))

\* str.strip(): drop leading and trailing whitespace
RECURSIVE lstrip(_)
lstrip(s) == IF s # <<>> /\ Head(s) \in Whitespace THEN lstrip(Tail(s)) ELSE s
RECURSIVE rstrip(_)
rstrip(s) ==
    IF s # <<>> /\ s[Len(s)] \in Whitespace
    THEN rstrip(SubSeq(s, 1, Len(s) - 1)) ELSE s
strip(s) == rstrip(lstrip(s))

\* Optional[str]: None, or a present string
None == [some |-> FALSE, val |-> <<>>]
Some(s) == [some |-> TRUE, val |-> s]

\* ------------------------------------------------------------------ numbers
\* Python's float is the IEEE-754 binary64 double and the calculator computes
\* in it, so the model does too.  A natural number of any size is a sequence
\* of limbs in base 2^15, least significant first, without leading zero limbs
\* (zero is <<>>).  A double is [neg, m, e]: the value (-1)^neg * m * 2^e with
\* m such a number of at most 53 bits, e >= -1074 and m * 2^e < 2^1024; zero
\* has m = <<>> and e = 0 and keeps its sign.  As in the format itself, the
\* exponent 1024 marks what is not a number of that kind: an infinity
\* (m = <<>>) and nan (m = <<1>>).  An int of the requests is an integer of
\* the model, which is below 2^31: float(qty) is always exact, where Python
\* raises OverflowError for an int of 2^1024 or more.
Limb == 32768

Max(a, b) == IF a >= b THEN a ELSE b
Min(a, b) == IF a <= b THEN a ELSE b
Abs(n) == IF n < 0 THEN 0 - n ELSE n

RECURSIVE Pow2(_)
Pow2(k) == IF k = 0 THEN 1 ELSE 2 * Pow2(k - 1)

RECURSIVE BTrim(_)
BTrim(a) == IF a # <<>> /\ a[Len(a)] = 0 THEN BTrim(SubSeq(a, 1, Len(a) - 1)) ELSE a

RECURSIVE BFromInt(_)
BFromInt(n) == IF n = 0 THEN <<>> ELSE <<n % Limb>> \o BFromInt(n \div Limb)

RECURSIVE BToInt(_)
BToInt(a) == IF a = <<>> THEN 0 ELSE a[1] + Limb * BToInt(Tail(a))

LimbAt(a, i) == IF i >= 1 /\ i <= Len(a) THEN a[i] ELSE 0

\* a + b with carry c
RECURSIVE BAddC(_, _, _)
BAddC(a, b, c) ==
    IF a = <<>> /\ b = <<>> THEN (IF c = 0 THEN <<>> ELSE <<c>>)
    ELSE LET s == LimbAt(a, 1) + LimbAt(b, 1) + c
         IN  <<s % Limb>> \o BAddC(IF a = <<>> THEN a ELSE Tail(a),
                                   IF b = <<>> THEN b ELSE Tail(b),
                                   s \div Limb)
BAdd(a, b) == BAddC(a, b, 0)

\* a - b for a >= b, with borrow c
RECURSIVE BSubC(_, _, _)
BSubC(a, b, c) ==
    IF a = <<>> THEN <<>>
    ELSE LET s == a[1] - LimbAt(b, 1) - c
         IN  <<s % Limb>> \o BSubC(Tail(a), IF b = <<>> THEN b ELSE Tail(b),
                                   IF s < 0 THEN 1 ELSE 0)
BSub(a, b) == BTrim(BSubC(a, b, 0))

\* -1, 0, 1 as a < b, a = b, a > b
RECURSIVE BCmp(_, _)
BCmp(a, b) ==
    IF Len(a) # Len(b) THEN (IF Len(a) < Len(b) THEN 0 - 1 ELSE 1)
    ELSE IF a = <<>> THEN 0
    ELSE IF a[Len(a)] # b[Len(b)] THEN (IF a[Len(a)] < b[Len(b)] THEN 0 - 1 ELSE 1)
    ELSE BCmp(SubSeq(a, 1, Len(a) - 1), SubSeq(b, 1, Len(b) - 1))

\* a * d for one limb d, with carry c
RECURSIVE BMulLimbC(_, _, _)
BMulLimbC(a, d, c) ==
    IF a = <<>> THEN (IF c = 0 THEN <<>> ELSE <<c>>)
    ELSE LET p == a[1] * d + c
         IN  <<p % Limb>> \o BMulLimbC(Tail(a), d, p \div Limb)
BMulLimb(a, d) == BTrim(BMulLimbC(a, d, 0))

RECURSIVE BMul(_, _)
BMul(a, b) ==
    IF a = <<>> \/ b = <<>> THEN <<>>
    ELSE BAdd(BMulLimb(a, b[1]), BTrim(<<0>> \o BMul(a, Tail(b))))

\* a * 2^k
BShl(a, k) ==
    IF a = <<>> THEN <<>>
    ELSE [i \in 1..(k \div 15) |-> 0] \o BMulLimb(a, Pow2(k % 15))

\* floor(a / 2^k)
BShr(a, k) ==
    LET d == k \div 15
        p == Pow2(k % 15)
    IN  IF Len(a) <= d THEN <<>>
        ELSE BTrim([i \in 1..(Len(a) - d) |->
                      (a[i + d] \div p) + (LimbAt(a, i + d + 1) % p) * (Limb \div p)])

\* floor(a / d) and a mod d for one limb d, from the top limb down
RECURSIVE BDivLimbR(_, _, _)
BDivLimbR(a, d, r) ==
    IF a = <<>> THEN [q |-> <<>>, r |-> r]
    ELSE LET n == r * Limb + a[Len(a)]
             rest == BDivLimbR(SubSeq(a, 1, Len(a) - 1), d, n % d)
         IN  [q |-> rest.q \o <<n \div d>>, r |-> rest.r]
BDivLimb(a, d) ==
    LET x == BDivLimbR(a, d, 0) IN [q |-> BTrim(x.q), r |-> x.r]

BitLen(a) ==
    IF a = <<>> THEN 0
    ELSE 15 * (Len(a) - 1)
         + (CHOOSE k \in 1..15 : Pow2(k - 1) <= a[Len(a)] /\ a[Len(a)] < Pow2(k))

\* the number m * 2^(-k) for k >= 0, rounded to the nearest whole number, a
\* tie to the even one
\* q or q + 1, as the part cut off compares (c) with one half
RoundUp(q, c) ==
    IF c > 0 \/ (c = 0 /\ q # <<>> /\ q[1] % 2 = 1) THEN BAdd(q, <<1>>) ELSE q
RoundFrom(m, k, q) == RoundUp(q, BCmp(BShl(BSub(m, BShl(q, k)), 1), BShl(<<1>>, k)))
BRoundShr(m, k) == RoundFrom(m, k, BShr(m, k))

\* the exponent of the last bit of the smallest subnormal, and the first
\* power of two that is no double
MinExp == 0 - 1074
MaxExp == 1024

SignedZero(neg) == [neg |-> neg, m |-> <<>>, e |-> 0]
Zero == SignedZero(FALSE)
Infinity(neg) == [neg |-> neg, m |-> <<>>, e |-> MaxExp]
NaN == [neg |-> FALSE, m |-> <<1>>, e |-> MaxExp]
IsNaN(f) == f.e = MaxExp /\ f.m # <<>>
IsInf(f) == f.e = MaxExp /\ f.m = <<>>
IsZero(f) == f.e # MaxExp /\ f.m = <<>>

\* the double nearest to (-1)^neg * m * 2^e, a tie to the even mantissa: the
\* mantissa is cut to 53 bits, or to fewer where its last bit would fall
\* below 2^MinExp (a subnormal, or zero); what rounds to 2^MaxExp or more is
\* an infinity
Finite(neg, q, e) ==
    IF q = <<>> THEN SignedZero(neg)
    ELSE IF BitLen(q) + e > MaxExp THEN Infinity(neg)
    ELSE [neg |-> neg, m |-> q, e |-> e]
Renormal(neg, q, e) ==
    IF BitLen(q) > 53 THEN Finite(neg, BShr(q, 1), e + 1) ELSE Finite(neg, q, e)
RoundBy(neg, m, e, k) ==
    IF k = 0 THEN Finite(neg, m, e) ELSE Renormal(neg, BRoundShr(m, k), e + k)
RoundToDouble(neg, m, e) ==
    RoundBy(neg, m, e, Max(Max(BitLen(m) - 53, MinExp - e), 0))

\* float(n) for an int n
FloatOfInt(n) == RoundToDouble(n < 0, BFromInt(Abs(n)), 0)

\* the double a JSON or Python literal of x/1000 denotes, x a number of mills
\* (2^64 * |x| / 1000, with a last bit that says whether anything is left over)
Sticky(d) == BAdd(BShl(d.q, 1), IF d.r = 0 THEN <<>> ELSE <<1>>)
FloatOfMills(x) ==
    RoundToDouble(x < 0, Sticky(BDivLimb(BShl(BFromInt(Abs(x)), 64), 1000)), 0 - 65)

\* -1, 0, 1 as |f| < |g|, |f| = |g|, |f| > |g|, for f and g other than nan
FCmpAbs(f, g) ==
    IF IsInf(f) \/ IsInf(g)
    THEN (IF IsInf(f) /\ IsInf(g) THEN 0 ELSE IF IsInf(f) THEN 1 ELSE 0 - 1)
    ELSE LET e == Min(f.e, g.e) IN BCmp(BShl(f.m, f.e - e), BShl(g.m, g.e - e))

\* -1, 0, 1 as f < g, f = g, f > g, for f and g other than nan; the two
\* zeros are equal
FCmp(f, g) ==
    IF f.neg # g.neg
    THEN (IF IsZero(f) /\ IsZero(g) THEN 0 ELSE IF f.neg THEN 0 - 1 ELSE 1)
    ELSE IF f.neg THEN 0 - FCmpAbs(f, g) ELSE FCmpAbs(f, g)

\* f > g and f >= g: false when either is nan
FGt(f, g) == ~IsNaN(f) /\ ~IsNaN(g) /\ FCmp(f, g) > 0
FGe(f, g) == ~IsNaN(f) /\ ~IsNaN(g) /\ FCmp(f, g) >= 0

FNeg(f) == IF IsNaN(f) THEN f ELSE [f EXCEPT !.neg = ~f.neg]

\* f * g
FMul(f, g) ==
    IF IsNaN(f) \/ IsNaN(g) THEN NaN
    ELSE IF IsInf(f) \/ IsInf(g)
    THEN (IF IsZero(f) \/ IsZero(g) THEN NaN ELSE Infinity(f.neg # g.neg))
    ELSE RoundToDouble(f.neg # g.neg, BMul(f.m, g.m), f.e + g.e)

\* f + g
\* (-1)^fneg * a * 2^e + (-1)^gneg * b * 2^e; a sum that is exactly zero is
\* +0.0, unless both are negative
AddSign(fneg, gneg, c) ==
    IF fneg = gneg \/ c > 0 THEN fneg ELSE IF c < 0 THEN gneg ELSE FALSE
AddAligned(fneg, a, gneg, b, e) ==
    RoundToDouble(AddSign(fneg, gneg, BCmp(a, b)),
                  IF fneg = gneg THEN BAdd(a, b)
                  ELSE IF BCmp(a, b) >= 0 THEN BSub(a, b) ELSE BSub(b, a),
                  e)
FAdd(f, g) ==
    IF IsNaN(f) \/ IsNaN(g) THEN NaN
    ELSE IF IsInf(f) THEN (IF IsInf(g) /\ f.neg # g.neg THEN NaN ELSE f)
    ELSE IF IsInf(g) THEN g
    ELSE AddAligned(f.neg, BShl(f.m, f.e - Min(f.e, g.e)),
                    g.neg, BShl(g.m, g.e - Min(f.e, g.e)), Min(f.e, g.e))

\* f - g
FSub(f, g) == FAdd(f, FNeg(g))

\* max(f, g): g when g > f, else f
FMax(f, g) == IF FGt(g, f) THEN g ELSE f

\* round(f, 2), in mills: the whole number of cents nearest to the double,
\* a double exactly on a half cent to the even cent; -0.0 is 0 in mills.
\* round() gives an infinity or nan back as it is.
Cents(n, e) == BToInt(IF e >= 0 THEN BShl(n, e) ELSE BRoundShr(n, 0 - e))
Mills(neg, cents) == IF neg THEN 0 - 10 * cents ELSE 10 * cents
round2(f) ==
    IF f.e = MaxExp THEN f ELSE Mills(f.neg, Cents(BMulLimb(f.m, 100), f.e))

\* the literals 0.10, 0.20 and 0.05 of the calculator
Float010 == FloatOfMills(100)
Float020 == FloatOfMills(200)
Float005 == FloatOfMills(50)

\* ------------------------------------------------------------------ store
\* database.get_documents(collection, filter, limit): the documents of the
\* collection that match the filter, in insertion order, at most `limit` of
\* them (limit 0: no limit).  Two filters are used: {} and {"slug": {"$in": ..}}.
get_documents_all(docs, limit) ==
    IF limit > 0 /\ Len(docs) > limit THEN SubSeq(docs, 1, limit) ELSE docs

RECURSIVE get_documents_slug_in(_, _)
get_documents_slug_in(docs, slugs) ==
    IF docs = <<>> THEN <<>>
    ELSE IF Head(docs).slug \in slugs
         THEN <<Head(docs)>> \o get_documents_slug_in(Tail(docs), slugs)
         ELSE get_documents_slug_in(Tail(docs), slugs)

\* (variant: a's value where both have the key)
MergeKeepFirst(a, b) ==
    [k \in DOMAIN a \cup DOMAIN b |-> IF k \in DOMAIN a THEN a[k] ELSE b[k]]

\* {**a, **b}: the keys of both, b's value where both have the key
Merge(a, b) ==
    [k \in DOMAIN a \cup DOMAIN b |-> IF k \in DOMAIN b THEN b[k] ELSE a[k]]

\* database.create_document(collection, data): append the document under a
\* fresh id, which is returned; the n-th document created in a collection
\* gets the id n
create_document(docs, doc, id) == Append(docs, Merge(doc, [_id |-> id]))

\* db[collection].delete_many({})
delete_many(docs) == <<>>

\* ------------------------------------------------------------------ threads
Threads == 1..Workers

\* a thread with no request
Free == [pc |-> "free"]

\* a thread whose request is answered: the response on its way out
Answer(op, req, status, body) ==
    [pc |-> "done", op |-> op, req |-> req, status |-> status, body |-> body]

\* a new request goes to the first thread that is free
Takes(w) == task[w] = Free /\ \A v \in Threads : v < w => task[v] # Free

\* ------------------------------------------------------------------ seed
Price109 == 109000

\* the four demo products seed_products inserts, in order; a title is a
\* sequence of characters, for its en dash (U+2013)
data ==
    << [title |->
            <<"S","l","u","g","'","s","E","r","a"," ","C","o","m","p","a",
              "n","i","o","n"," ","H","o","o","d","i","e"," ","U+2013"," ",
              "R","e","d">>,
        slug |-> "companion-hoodie-red", price |-> Price109],
       [title |->
            <<"S","l","u","g","'","s","E","r","a"," ","C","o","m","p","a",
              "n","i","o","n"," ","H","o","o","d","i","e"," ","U+2013"," ",
              "O","f","f","-","W","h","i","t","e">>,
        slug |-> "companion-hoodie-off-white", price |-> Price109],
       [title |->
            <<"S","l","u","g","'","s","E","r","a"," ","C","o","m","p","a",
              "n","i","o","n"," ","H","o","o","d","i","e"," ","U+2013"," ",
              "B","l","a","c","k">>,
        slug |-> "companion-hoodie-black", price |-> Price109],
       [title |->
            <<"S","l","u","g","'","s","E","r","a"," ","C","o","m","p","a",
              "n","i","o","n"," ","H","o","o","d","i","e"," ","U+2013"," ",
              "C","o","f","f","e","e"," ","B","r","o","w","n">>,
        slug |-> "companion-hoodie-coffee-brown", price |-> Price109] >>

\* (variant: the collection is never emptied)
AfterFindKeep(force) == "insert"

\* where seed_products goes on once it has decided to seed: the collection
\* is emptied first when force
AfterFind(force) == IF force THEN "delete" ELSE "insert"

\* the products created so far and those the seedings under way will create
RECURSIVE SumOver(_, _)
SumOver(f, S) ==
    IF S = {} THEN 0
    ELSE LET x == CHOOSE y \in S : TRUE IN f[x] + SumOver(f, S \ {x})
Seeded ==
    created + SumOver([w \in Threads |->
                          IF task[w].pc \in {"delete", "insert"}
                          THEN Len(data) - Len(task[w].inserted) ELSE 0], Threads)

\* POST /api/seed, up to the decision: look for one product; skip when there
\* is one and force is not set
seed_products_find(w, force) ==
    LET existing == get_documents_all(product, 1)
        req == [force |-> force]
    IN  /\ Takes(w)
        /\ Seeded < Len(data) * MaxSeedings
        /\ task' = [task EXCEPT ![w] =
              IF existing # <<>> /\ ~force
              THEN Answer("seed", req, 200,
                          [seeded |-> FALSE, message |-> "Products already exist"])
              ELSE [pc |-> AfterFind(force), op |-> "seed", req |-> req,
                    inserted |-> <<>>]]
        /\ UNCHANGED <<product, order, created>>

\* POST /api/seed with force: empty the collection
seed_products_delete(w) ==
    /\ task[w].pc = "delete"
    /\ product' = delete_many(product)
    /\ task' = [task EXCEPT ![w].pc = "insert"]
    /\ UNCHANGED <<order, created>>

\* POST /api/seed: insert the next demo product; after the last one, answer
\* with the ids
seed_products_insert(w) ==
    LET inserted == task[w].inserted
        prod == data[Len(inserted) + 1]
        inserted_id == created + 1
    IN  /\ task[w].pc = "insert"
        /\ product' = create_document(product, prod, inserted_id)
        /\ created' = inserted_id
        /\ task' = [task EXCEPT ![w] =
              IF Len(inserted) + 1 = Len(data)
              THEN Answer("seed", task[w].req, 200,
                          [seeded |-> TRUE, inserted |-> Append(inserted, inserted_id)])
              ELSE [task[w] EXCEPT !.inserted = Append(inserted, inserted_id)]]
        /\ UNCHANGED order

\* ------------------------------------------------------------------ calc
\* the literals 150, 8.0 and 25.0 of the shipping rule
ShippingFreeFrom == FloatOfMills(150000)
ShippingDomestic == FloatOfMills(8000)
ShippingInternational == FloatOfMills(25000)

\* {i["slug"]: i for i in docs}: keyed by slug, a later document wins
items_map(docs) ==
    [s \in {docs[i].slug : i \in 1..Len(docs)} |->
        docs[CHOOSE i \in 1..Len(docs) :
                /\ docs[i].slug = s
                /\ \A j \in 1..Len(docs) : docs[j].slug = s => j <= i]]

\* (variant: only a cart none of whose products is found is invalid)
InvalidCartNoneFound(found, slugs) == found = <<>> /\ slugs # <<>>

\* len(items_map) != len(set(slugs))
InvalidCart(found, slugs) ==
    Cardinality(DOMAIN items_map(found)) # Cardinality(Range(slugs))

\* line = prod["price"] * ci.qty
line(ci, imap) == FMul(FloatOfMills(imap[ci.product_slug].price), FloatOfInt(ci.qty))

\* subtotal += line, over the cart in order
RECURSIVE SumLines(_, _, _)
SumLines(subtotal, items, imap) ==
    IF items = <<>> THEN subtotal
    ELSE SumLines(FAdd(subtotal, line(Head(items), imap)), Tail(items), imap)

breakdown(items, imap) ==
    [i \in 1..Len(items) |->
        [slug |-> items[i].product_slug,
         title |-> imap[items[i].product_slug].title,
         price |-> imap[items[i].product_slug].price,
         qty |-> items[i].qty,
         line_total |-> round2(line(items[i], imap))]]

\* (variant: upper-cased but not stripped)
NormalizeCodeNoStrip(s) == upper(s)

\* the code the rate is looked up under
NormalizeCode(s) == upper(strip(s))

discount(discount_code, subtotal) ==
    IF discount_code.some /\ discount_code.val # <<>>
    THEN LET code == NormalizeCode(discount_code.val)
         IN  IF code \in {<<"S","L","U","G","1","0">>,
                          <<"W","E","L","C","O","M","E","1","0">>}
             THEN FMul(Float010, subtotal)
             ELSE IF code = <<"V","I","P","2","0">>
             THEN FMul(Float020, subtotal)
             ELSE Zero
    ELSE Zero

after_discount(subtotal, disc) == FMax(FSub(subtotal, disc), Zero)

is_domestic(country) ==
    upper(country) \in {<<"I","N">>, <<"I","N","D","I","A">>}

\* (variant: free only above the threshold)
shipping_above(ad, dom) ==
    IF FGt(ad, ShippingFreeFrom) THEN Zero
    ELSE IF dom THEN ShippingDomestic ELSE ShippingInternational

\* 0.0 if after_discount >= 150 else (8.0 if is_domestic else 25.0)
shipping(ad, dom) ==
    IF FGe(ad, ShippingFreeFrom) THEN Zero
    ELSE IF dom THEN ShippingDomestic ELSE ShippingInternational

\* (variant: every destination is taxed)
tax_everywhere(ad, dom) == FMul(Float005, ad)

tax(ad, dom) == IF dom THEN FMul(Float005, ad) ELSE Zero

\* the local variables of calculate_order, one assignment after the other;
\* v holds the ones assigned so far
With(v, name, x) == [k \in DOMAIN v \cup {name} |-> IF k = name THEN x ELSE v[k]]
set_subtotal(payload, imap) == [subtotal |-> SumLines(Zero, payload.items, imap)]
set_discount(v, payload) ==
    With(v, "discount", discount(payload.discount_code, v.subtotal))
set_after_discount(v) ==
    With(v, "after_discount", after_discount(v.subtotal, v.discount))
set_is_domestic(v, payload) == With(v, "is_domestic", is_domestic(payload.country))
set_shipping(v) == With(v, "shipping", shipping(v.after_discount, v.is_domestic))
set_tax(v) == With(v, "tax", tax(v.after_discount, v.is_domestic))
set_total(v) == With(v, "total", FAdd(FAdd(v.after_discount, v.shipping), v.tax))
locals(payload, imap) ==
    set_total(set_tax(set_shipping(set_is_domestic(set_after_discount(
        set_discount(set_subtotal(payload, imap), payload)), payload))))

\* the dict calculate_order returns
returned(payload, imap, v) ==
    [items |-> breakdown(payload.items, imap),
     subtotal |-> round2(v.subtotal),
     discount |-> round2(v.discount),
     shipping |-> round2(v.shipping),
     tax |-> round2(v.tax),
     total |-> round2(v.total)]

\* calculate_order(payload) against the product collection docs: the HTTP
\* status and the body
calculate_order(payload, docs) ==
    LET slugs == [i \in 1..Len(payload.items) |-> payload.items[i].product_slug]
        found == get_documents_slug_in(docs, Range(slugs))
        imap == items_map(found)
    IN  IF InvalidCart(found, slugs)
        THEN [status |-> 400, body |-> [detail |-> "Invalid product in cart"]]
        ELSE IF \E s \in Range(slugs) : s \notin DOMAIN imap
        THEN [status |-> 500, body |-> [detail |-> "KeyError"]]
        ELSE [status |-> 200, body |-> returned(payload, imap, locals(payload, imap))]

\* POST /api/calc: one read of the catalog, then the answer
post_calc(w, payload) ==
    LET r == calculate_order(payload, product)
    IN  /\ Takes(w)
        /\ task' = [task EXCEPT ![w] = Answer("calc", payload, r.status, r.body)]
        /\ UNCHANGED <<product, order, created>>

\* ------------------------------------------------------------------ orders
\* (variant: every order starts pending)
OrderStatusPending(payment_method) == "pending"

OrderStatus(payment_method) ==
    IF payment_method = "COD" THEN "confirmed" ELSE "pending"

\* the document create_order stores
OrderDocument(payload, calc) ==
    Merge(Merge(payload, calc), [status |-> OrderStatus(payload.payment_method)])

\* the CalcRequest create_order builds from the Order payload
CalcRequestOf(payload) ==
    [items |-> [i \in 1..Len(payload.items) |->
                   [product_slug |-> payload.items[i].product_slug,
                    qty |-> payload.items[i].qty,
                    size |-> payload.items[i].size,
                    color |-> payload.items[i].color]],
     discount_code |-> payload.discount_code,
     country |-> payload.address.country]

\* POST /api/orders, the pricing: the calculator reads the catalog; a cart it
\* rejects is answered at once, a priced one is held for the insert
create_order_calc(w, payload) ==
    LET r == calculate_order(CalcRequestOf(payload), product)
    IN  /\ Takes(w)
        /\ Len(order) < MaxOrders
        /\ task' = [task EXCEPT ![w] =
              IF r.status # 200
              THEN Answer("orders", payload, r.status, r.body)
              ELSE [pc |-> "store", op |-> "orders", req |-> payload,
                    calc |-> r.body]]
        /\ UNCHANGED <<product, order, created>>

\* POST /api/orders, the insert: store the order and answer
create_order_insert(w) ==
    LET payload == task[w].req
        calc == task[w].calc
        order_id == Len(order) + 1
    IN  /\ task[w].pc = "store"
        /\ order' = create_document(order, OrderDocument(payload, calc), order_id)
        /\ task' = [task EXCEPT ![w] =
              Answer("orders", payload, 200,
                     [order_id |-> order_id, status |-> "ok", summary |-> calc])]
        /\ UNCHANGED <<product, created>>

\* the response is sent; the thread is free for the next request
respond(w) ==
    /\ task[w].pc = "done"
    /\ task' = [task EXCEPT ![w] = Free]
    /\ UNCHANGED <<product, order, created>>

\* ------------------------------------------------------------------ inputs
Red == "companion-hoodie-red"
Unknown == "no-such-hoodie"

SeqsUpTo(S, n) == UNION {[1..k -> S] : k \in 0..n}

\* cart lines POST /api/calc is sent: CalcItem.qty is any integer
CalcLines ==
    {[product_slug |-> Red, qty |-> q, size |-> "M", color |-> "red"] :
        q \in {0 - 1} \cup 1..MaxQty}
    \cup {[product_slug |-> Unknown, qty |-> 1, size |-> "M", color |-> "red"]}

OneRed == <<[product_slug |-> Red, qty |-> 1, size |-> "M", color |-> "red"]>>

\* codes: none, empty, the three known ones in odd case and with whitespace
\* of both kinds around, long s (U+017F) for s, and two unknown ones
DiscountCodes ==
    { None,
      Some(<<>>),
      Some(<<" ","S","l","u","g","1","0"," ">>),
      Some(<<"\f","s","l","u","g","1","0","U+2003">>),
      Some(<<"U+017F","l","u","g","1","0">>),
      Some(<<"w","e","l","c","o","m","e","1","0">>),
      Some(<<"V","i","p","2","0","\n">>),
      Some(<<"N","O","P","E">>),
      Some(<<"v","i","ß","2","0">>) }

\* countries: dotless i (U+0131) for i in the fourth
Countries ==
    { <<"I","N">>, <<"I","n","d","i","a">>, <<"U","S">>, <<"U+0131","n">> }

\* every cart with a plain code or none, to the home country and abroad, and
\* one hoodie under every code to every country
CalcRequests ==
    [items : SeqsUpTo(CalcLines, MaxLines),
     discount_code : {None, Some(<<" ","S","l","u","g","1","0"," ">>),
                      Some(<<"V","i","p","2","0","\n">>)},
     country : {<<"I","N">>, <<"U","S">>}]
    \cup [items : {OneRed}, discount_code : DiscountCodes, country : Countries]

\* carts POST /api/orders is sent: CartItem.qty >= 1, size and color of the
\* schema's literals
OrderCarts ==
    { << [product_slug |-> Red, qty |-> 1, size |-> "M", color |-> "red"],
         [product_slug |-> Red, qty |-> MaxQty, size |-> "XL", color |-> "red"] >>,
      << [product_slug |-> Red, qty |-> 1, size |-> "M", color |-> "red"],
         [product_slug |-> Unknown, qty |-> 1, size |-> "S", color |-> "red"] >> }

\* what the client claims the order costs, and its status
ClientFields ==
    { [subtotal |-> 0, discount |-> 0, shipping |-> 0, tax |-> 0, total |-> 0,
       status |-> "pending"],
      [subtotal |-> 1000, discount |-> 0, shipping |-> 0, tax |-> 0,
       total |-> 1000, status |-> "delivered"] }

Addresses ==
    { [full_name |-> "A Buyer", line1 |-> "1 Main Road", city |-> "Pune",
       state |-> "MH", postal_code |-> "411001", country |-> c] :
        c \in {<<"i","n">>, <<"U","S">>} }

OrderRequests ==
    { Merge([guest |-> TRUE, items |-> it, address |-> ad,
             payment_method |-> pm, discount_code |-> dc], cf) :
        it \in OrderCarts,
        ad \in Addresses,
        pm \in {"COD", "PREPAID"},
        dc \in {None, Some(<<"s","l","u","g","1","0">>)},
        cf \in ClientFields }

AllKnown(items) == \A i \in 1..Len(items) : items[i].product_slug # Unknown

\* the requests sent while other requests are in flight: one quote, and the
\* orders with a code, to the home country, with amounts the client made up
CalcRequestsInFlight ==
    { [items |-> OneRed, discount_code |-> None, country |-> <<"I","N">>] }

OrderRequestsInFlight ==
    { r \in OrderRequests :
        /\ r.discount_code # None
        /\ r.address.country = <<"i","n">>
        /\ r.status = "delivered"
        /\ (r.payment_method = "COD" \/ AllKnown(r.items)) }

\* ------------------------------------------------------------------ system
Init ==
    /\ product = <<>>
    /\ order = <<>>
    /\ created = 0
    /\ task = [w \in Threads |-> Free]

\* one step of one of the threads W, for requests drawn from calcs and orders
Step(W, calcs, orders) ==
    \E w \in W :
        \/ \E force \in BOOLEAN : seed_products_find(w, force)
        \/ seed_products_delete(w)
        \/ seed_products_insert(w)
        \/ \E payload \in calcs : post_calc(w, payload)
        \/ \E payload \in orders : create_order_calc(w, payload)
        \/ create_order_insert(w)
        \/ respond(w)

\* requests served concurrently, as the thread pool does
Next == Step(Threads, CalcRequestsInFlight, OrderRequestsInFlight)

Spec == Init /\ [][Next]_vars

\* requests served one at a time: one thread
NextOneAtATime == Step({1}, CalcRequests, OrderRequests)

OneAtATime == Init /\ [][NextOneAtATime]_vars

\* ------------------------------------------------------------------ a stocked catalog
\* The product collection is a database the shop stocks: a Product's price
\* is any float >= 0.  Prices, in mills, that put the amount after discount
\* on and next to the free-shipping threshold: with no code (150.00, 149.99,
\* and 75.00 twice), with VIP20 (187.50, 187.49) and with a 10% code (166.67,
\* 166.66); and a second product at 0.01, which lifts 149.99 to 150.00.
ThresholdPrices == {150000, 149990, 75000, 187500, 187490, 166670, 166660}
PennyPrice == 10
OffWhite == "companion-hoodie-off-white"

\* the first two demo products, the first at price p, as stored documents
Stocked(p) ==
    << Merge([data[1] EXCEPT !.price = p], [_id |-> 1]),
       Merge([data[2] EXCEPT !.price = PennyPrice], [_id |-> 2]) >>

StockedLines ==
    {[product_slug |-> Red, qty |-> q, size |-> "M", color |-> "red"] :
        q \in 1..MaxQty}
    \cup {[product_slug |-> OffWhite, qty |-> 1, size |-> "M", color |-> "off-white"]}

StockedRequests ==
    [items : SeqsUpTo(StockedLines, MaxLines),
     discount_code : {None, Some(<<"s","l","u","g","1","0">>),
                      Some(<<"V","I","P","2","0">>)},
     country : Countries]

InitStocked ==
    /\ \E p \in ThresholdPrices : product = Stocked(p)
    /\ order = <<>>
    /\ created = 2
    /\ task = [w \in Threads |-> Free]

\* quotes on a stocked catalog, one at a time
NextStocked ==
    \/ \E payload \in StockedRequests : post_calc(1, payload)
    \/ respond(1)

StockedCatalog == InitStocked /\ [][NextStocked]_vars

\* ------------------------------------------------------------------ properties
\* thread w holds the answer to a request
Answered(w) == task[w].pc = "done"

\* thread w holds a priced answer: a quote, or the summary of a stored order
Quoted(w) == Answered(w) /\ task[w].op \in {"calc", "orders"} /\ task[w].status = 200
QuoteBody(w) == IF task[w].op = "calc" THEN task[w].body ELSE task[w].body.summary
QuoteCountry(w) ==
    IF task[w].op = "calc" THEN task[w].req.country ELSE task[w].req.address.country
Calculated(w) == Answered(w) /\ task[w].op = "calc"

\* thread w holds the answer to an order that was stored, and that order
Ordered(w) == Answered(w) /\ task[w].op = "orders" /\ task[w].status = 200
StoredOrder(w) == order[task[w].body.order_id]

\* thread w takes a request of one of the kinds ops in this step
Starts(w, ops) == task[w] = Free /\ task'[w] # Free /\ task'[w].op \in ops

Resolves(slug) == \E i \in 1..Len(product) : product[i].slug = slug
AllResolve(items) == \A i \in 1..Len(items) : Resolves(items[i].product_slug)

\* a is the upper-case text b in some letter case: character by character
\* the same, or a character whose upper-case form is b's
SameIgnoringCase(a, b) ==
    /\ Len(a) = Len(b)
    /\ \A i \in 1..Len(a) :
          \/ a[i] = b[i]
          \/ a[i] \in DOMAIN ToUpper /\ ToUpper[a[i]] = <<b[i]>>

\* c is x in some letter case, with nothing but whitespace around it
Spells(c, x) ==
    \E i \in 1..(Len(c) + 1), j \in 0..Len(c) :
        /\ SameIgnoringCase(SubSeq(c, i, j), x)
        /\ \A k \in 1..Len(c) : (k < i \/ k > j) => c[k] \in Whitespace

\* the characters that are a letter of IN and INDIA in some letter case; the
\* dotless i (U+0131) is a small letter whose capital is I
LetterCases ==
    [I |-> {"I", "i", "U+0131"}, N |-> {"N", "n"}, D |-> {"D", "d"}, A |-> {"A", "a"}]
InLetterCase(c, x) ==
    Len(c) = Len(x) /\ \A i \in 1..Len(c) : c[i] \in LetterCases[x[i]]

\* the country is IN or INDIA, compared without regard to letter case
HomeCountry(c) ==
    InLetterCase(c, <<"I","N">>) \/ InLetterCase(c, <<"I","N","D","I","A">>)

\* subtotal minus discount, floored at zero, from the returned fields
AfterDiscountOf(b) == Max(b.subtotal - b.discount, 0)

MoneyFields == {"subtotal", "discount", "shipping", "tax", "total"}

\* C1: every stored order carries the subtotal, discount, shipping, tax and
\* total the calculator computes for the submitted cart, code and country
\* against the catalog as it is when the order request is priced, whatever
\* amounts the client sent: the order request holds those amounts from its
\* pricing on, and the stored order and the answer carry them.
C1_ServerTotalsStored ==
    /\ [][\A w \in Threads :
            Starts(w, {"orders"}) /\ task'[w].pc = "store" =>
                LET req == task'[w].req
                    calc == calculate_order([items |-> req.items,
                                             discount_code |-> req.discount_code,
                                             country |-> req.address.country],
                                            product)
                IN  /\ calc.status = 200
                    /\ \A k \in MoneyFields : task'[w].calc[k] = calc.body[k]]_vars
    /\ [][\A w \in Threads :
            task[w].pc = "store" /\ task'[w].pc = "done" =>
                /\ Len(order') = Len(order) + 1
                /\ \A k \in MoneyFields :
                      /\ order'[Len(order')][k] = task[w].calc[k]
                      /\ task'[w].body.summary[k] = task[w].calc[k]]_vars
    /\ [](\A w \in Threads :
            Ordered(w) =>
                \A k \in MoneyFields : StoredOrder(w)[k] = task[w].body.summary[k])

C1_Witness ==
    \E w \in Threads :
        /\ Ordered(w)
        /\ task[w].req.total = 1000
        /\ StoredOrder(w).total # task[w].req.total
        /\ StoredOrder(w).total = task[w].body.summary.total

\* C2: a request whose cart names a product that is not in the catalog when
\* the cart is priced is answered 400 with no breakdown, and an order request
\* of that kind stores nothing: the order collection grows only by the insert
\* of a request whose cart was priced.
C2_UnknownProductRejected ==
    /\ [][\A w \in Threads :
            Starts(w, {"calc", "orders"}) /\ ~AllResolve(task'[w].req.items) =>
                /\ task'[w].pc = "done"
                /\ task'[w].status = 400
                /\ DOMAIN task'[w].body = {"detail"}
                /\ order' = order]_vars
    /\ [][order' # order =>
            \E w \in Threads :
                /\ task[w].pc = "store"
                /\ task'[w].pc = "done"
                /\ task'[w].status = 200]_vars

C2_Witness ==
    \E w \in Threads :
        /\ Answered(w)
        /\ task[w].op = "orders"
        /\ task[w].status = 400
        /\ Resolves(task[w].req.items[1].product_slug)
        /\ ~Resolves(task[w].req.items[2].product_slug)
        /\ order = <<>>

\* C3: the returned fields add up: total = round(subtotal - discount, 2)
\* + shipping + tax (the difference of two amounts in cents is in cents).
C3_TotalIsSumOfFields ==
    \A w \in Threads :
        Calculated(w) /\ task[w].status = 200 =>
            task[w].body.total =
                (task[w].body.subtotal - task[w].body.discount)
                + task[w].body.shipping + task[w].body.tax

\* C4: the returned discount never exceeds the returned subtotal, and what
\* is left after the discount is never negative.
C4_DiscountAtMostSubtotal ==
    \A w \in Threads :
        Calculated(w) /\ task[w].status = 200 =>
            /\ task[w].body.discount <= task[w].body.subtotal
            /\ task[w].body.total - task[w].body.shipping - task[w].body.tax >= 0

\* C5: shipping is 0 from 150.00 after discount on (150.00 itself included),
\* else 8.0 to the home country (IN or INDIA in any letter case) and 25.0
\* elsewhere; an amount after discount of exactly 150.00 ships free and one of
\* 149.99 does not.
C5_ShippingRule ==
    \A w \in Threads :
        Quoted(w) =>
            /\ QuoteBody(w).shipping =
                  IF AfterDiscountOf(QuoteBody(w)) >= 150000 THEN 0
                  ELSE IF HomeCountry(QuoteCountry(w)) THEN 8000 ELSE 25000
            /\ AfterDiscountOf(QuoteBody(w)) = 150000 => QuoteBody(w).shipping = 0
            /\ AfterDiscountOf(QuoteBody(w)) = 149990 =>
                  QuoteBody(w).shipping \in {8000, 25000}

\* a quote to India of exactly 150.00 after a 20% discount, shipped free
C5_Witness ==
    \E w \in Threads :
        /\ Calculated(w) /\ task[w].status = 200
        /\ task[w].req.country = <<"I","n","d","i","a">>
        /\ task[w].body.subtotal = 187500
        /\ task[w].body.discount = 37500
        /\ task[w].body.shipping = 0

\* C6: the tax is 5% of the amount after discount (to the cent) for the home
\* country and 0 elsewhere; one hoodie at 109.0 without a code gives tax 5.45
\* and total 122.45, two give shipping 0, tax 10.90 and total 228.90.
C6_TaxRule ==
    \A w \in Threads :
        /\ Quoted(w) =>
              IF HomeCountry(QuoteCountry(w))
              THEN 20 * QuoteBody(w).tax - AfterDiscountOf(QuoteBody(w)) \in (0 - 100)..100
              ELSE QuoteBody(w).tax = 0
        /\ \A q \in {1, 2} :
              /\ Calculated(w)
              /\ AllResolve(task[w].req.items)
              /\ task[w].req = [items |-> <<[product_slug |-> Red, qty |-> q,
                                             size |-> "M", color |-> "red"]>>,
                                discount_code |-> None,
                                country |-> <<"I","N">>]
              => /\ task[w].status = 200
                 /\ task[w].body.shipping = (IF q = 1 THEN 8000 ELSE 0)
                 /\ task[w].body.tax = (IF q = 1 THEN 5450 ELSE 10900)
                 /\ task[w].body.total = (IF q = 1 THEN 122450 ELSE 228900)

C6_Witness ==
    \E w \in Threads :
        /\ Calculated(w) /\ task[w].status = 200
        /\ Len(task[w].req.items) = 1
        /\ task[w].req.items[1].qty = 2
        /\ task[w].req.discount_code = None
        /\ task[w].req.country = <<"I","N">>
        /\ task[w].body.tax = 10900
        /\ task[w].body.total = 228900

\* C7: SLUG10 and WELCOME10 take 10% of the subtotal and VIP20 takes 20%, in
\* any letter case and with whitespace around; no code, an empty code or an
\* unknown code takes nothing and the request is still priced.
C7_DiscountCode ==
    \A w \in Threads :
        Calculated(w) /\ AllResolve(task[w].req.items) =>
            LET c == task[w].req.discount_code
                pct == IF ~c.some THEN 0
                       ELSE IF Spells(c.val, <<"S","L","U","G","1","0">>)
                               \/ Spells(c.val, <<"W","E","L","C","O","M","E","1","0">>)
                            THEN 10
                       ELSE IF Spells(c.val, <<"V","I","P","2","0">>) THEN 20
                       ELSE 0
            IN  /\ task[w].status = 200
                /\ 100 * task[w].body.discount = pct * task[w].body.subtotal

C7_Witness ==
    \E w \in Threads :
        /\ Calculated(w) /\ task[w].status = 200
        /\ task[w].req.discount_code = Some(<<"\f","s","l","u","g","1","0","U+2003">>)
        /\ task[w].body.subtotal = 109000
        /\ task[w].body.discount = 10900

\* C8 as claimed: the status is "confirmed" for COD and "pending" otherwise,
\* in the stored order and in the response.
C8_StatusStoredAndReturned ==
    \A w \in Threads :
        Ordered(w) =>
            LET s == IF task[w].req.payment_method = "COD" THEN "confirmed" ELSE "pending"
            IN  StoredOrder(w).status = s /\ task[w].body.status = s

\* C8 as amended: the stored order's status is "confirmed" for COD and
\* "pending" otherwise, whatever status the client sent; the response's
\* status field is always "ok".
C8_StatusStored ==
    \A w \in Threads :
        Ordered(w) =>
            /\ StoredOrder(w).status =
                  (IF task[w].req.payment_method = "COD" THEN "confirmed" ELSE "pending")
            /\ task[w].body.status = "ok"

C8_Witness ==
    \E w \in Threads :
        /\ Ordered(w)
        /\ task[w].req.status = "delivered"
        /\ task[w].req.payment_method = "COD"
        /\ StoredOrder(w).status = "confirmed"

\* C9: the stored order still holds the address and every submitted cart
\* line (product reference, quantity, size, color).
C9_CartAndAddressStored ==
    \A w \in Threads :
        Ordered(w) =>
            /\ StoredOrder(w).address = task[w].req.address
            /\ Len(StoredOrder(w).items) = Len(task[w].req.items)
            /\ \A i \in 1..Len(task[w].req.items) :
                  /\ {"product_slug", "qty", "size", "color"}
                        \subseteq DOMAIN StoredOrder(w).items[i]
                  /\ \A f \in {"product_slug", "qty", "size", "color"} :
                        StoredOrder(w).items[i][f] = task[w].req.items[i][f]

\* C10: with requests served one at a time, a seed request on a non-empty
\* catalog without force changes nothing and answers seeded = false, and
\* when a seed request has been answered the catalog holds exactly the four
\* demo products, each slug once.
C10_SeedIdempotent ==
    /\ [](\A w \in Threads :
            Answered(w) /\ task[w].op = "seed" =>
                /\ Len(product) = 4
                /\ {product[i].slug : i \in 1..Len(product)} =
                      {"companion-hoodie-red", "companion-hoodie-off-white",
                       "companion-hoodie-black", "companion-hoodie-coffee-brown"})
    /\ [][\A w \in Threads :
            Starts(w, {"seed"}) /\ product # <<>> /\ ~task'[w].req.force =>
                /\ product' = product
                /\ order' = order
                /\ task'[w].pc = "done"
                /\ task'[w].body.seeded = FALSE]_vars

C10_Witness ==
    \E w \in Threads :
        /\ Answered(w)
        /\ task[w].op = "seed"
        /\ task[w].body.seeded = FALSE
        /\ Len(product) = 4

====
